---- MODULE Spec2Model ----
(***************************************************************************)
(* Component Forge: the specification utilities of figma-plugin/src/utils/ *)
(* spec.ts (validator, variant generator, selector matching, autofixes).   *)
(*                                                                         *)
(* Strings are sequences of one-character strings, so that trim, replace,  *)
(* includes, split and concatenation are computed character by character.  *)
(* Objects keyed by strings (VariantCombination, VariantSelector) are      *)
(* functions whose domain is the set of own keys.                          *)
(***************************************************************************)
EXTENDS Integers, Sequences, FiniteSets, TLC

VARIABLES
    spec,           \* the ComponentSpec object the caller holds
    pc,             \* which call has returned last
    combinations,   \* result of generateVariantCombinations(spec.variantGroups)
    again,          \* result of a second call with the same groups
    combination,    \* variantMatchesSelector: first argument
    selector,       \* variantMatchesSelector: second argument (optional)
    matched,        \* variantMatchesSelector: result
    validation,     \* result of validateSpec(spec)
    fixes,          \* the AutoFixSuggestion[] handed to applyAutoFixes
    fixed,          \* the object applyAutoFixes returned
    sameObject,     \* whether the returned object is the caller's own object
    revalidation,   \* result of validateSpec(fixed)
    activeVariants, \* ui.ts: state.activeVariants, the combination previewed
    element,        \* applyPreviewStyles: the element styled
    isRoot,         \* applyPreviewStyles: whether it is spec.structure
    activeStates,   \* the StateSpec[] selected for one combination
    computed,       \* applyPreviewStyles: the ComputedStyle it applies
    recomputed,     \* the ComputedStyle of a second call, same arguments
    previewTargets, \* preview: per binding, the ids of the elements it drives
    previewProps,   \* ui.ts resolvePropValues: result
    context,        \* code.ts BuildContext: nodeByElementId and nodesByRole
    references,     \* code.ts: node id -> componentPropertyReferences
    warned,         \* code.ts: the console.warn log
    propValues,     \* code.ts resolvePropValues: result
    components,     \* createComponentFromSpec: the ComponentNodes created
    componentSet,   \* createComponentFromSpec: the ComponentSetNode, if any
    msg,            \* figma.ui.onmessage: the UIToPluginMessage handled
    posted,         \* the PluginToUIMessages posted, oldest first
    stored,         \* figma.clientStorage: what saveSpecToStorage wrote
    page,           \* the nodes the host has created for the plugin, oldest first
    loads,          \* the figma.loadFontAsync calls of the request, with their outcome
    handled,        \* how many UIToPluginMessages the plugin has taken
    objects,        \* ui.ts: the specification objects made so far
    held,           \* ui.ts: which object state.spec is
    stateIndex,     \* ui.ts: state.selection.stateIndex
    stateValidation, \* ui.ts: state.validation
    history,        \* history: the names typed and the saves requested, in order
    largeVariantConfirmed, \* ui.ts: state.largeVariantConfirmed
    prompted,       \* the last window.confirm: the specification asked about, the answer
    outbox,         \* the UIToPluginMessages the UI has posted, oldest first
    delivered,      \* how many of the posted PluginToUIMessages the UI has handled
    edits           \* how many user events the UI has handled

utilVars == << combinations, again, combination, selector, matched,
               validation, fixes, fixed, sameObject, revalidation >>
previewVars == << activeVariants, element, isRoot, activeStates, computed,
                  recomputed, previewTargets, previewProps >>
builderVars == << context, references, warned, propValues, components,
                  componentSet >>
hostVars == << msg, posted, stored, page, loads, handled >>

editorVars == << objects, held, stateIndex, stateValidation, largeVariantConfirmed, prompted, outbox,
                 delivered, edits, history >>

vars == << spec, pc, utilVars, previewVars, builderVars, hostVars, editorVars >>

----------------------------------------------------------------------------
(* Bounds of the model *)

\* variant groups per specification
MaxGroups == 2
\* values per variant group (generator runs)
MaxValues == 2
\* values of the first variant group (duplicate-value runs)
MaxDupValues == 4
\* bindings per specification (property-catalog runs)
MaxBindings == 1
\* fixes handed to applyAutoFixes
MaxFixes == 2

----------------------------------------------------------------------------
(* Generic helpers *)

Range(s) == { s[i] : i \in 1..Len(s) }

\* all sequences over S of length 0..n
SeqUpTo(S, n) == UNION { [1..k -> S] : k \in 0..n }

\* sequences without repeated elements (key order of a JS object)
IsDuplicateFree(s) == \A i, j \in 1..Len(s) : s[i] = s[j] => i = j

RECURSIVE Product(_)
Product(ns) == IF Len(ns) = 0 THEN 1 ELSE Head(ns) * Product(Tail(ns))

RECURSIVE Sum(_)
Sum(ns) == IF Len(ns) = 0 THEN 0 ELSE Head(ns) + Sum(Tail(ns))

\* concatenation of a sequence of sequences
RECURSIVE Flatten(_)
Flatten(ss) == IF Len(ss) = 0 THEN << >> ELSE Head(ss) \o Flatten(Tail(ss))

\* Array.prototype.findIndex for equality with x, 1-based; 0 when not found
RECURSIVE IndexOfFrom(_, _, _)
IndexOfFrom(s, x, i) ==
    IF i > Len(s) THEN 0 ELSE IF s[i] = x THEN i ELSE IndexOfFrom(s, x, i + 1)

IndexOf(s, x) == IndexOfFrom(s, x, 1)

----------------------------------------------------------------------------
(* Strings *)

WhiteSpace == { " ", "\t", "\n" }

\* String.prototype.trim
RECURSIVE TrimStart(_)
TrimStart(s) ==
    IF Len(s) > 0 /\ Head(s) \in WhiteSpace THEN TrimStart(Tail(s)) ELSE s

RECURSIVE TrimEnd(_)
TrimEnd(s) ==
    IF Len(s) > 0 /\ s[Len(s)] \in WhiteSpace
    THEN TrimEnd(SubSeq(s, 1, Len(s) - 1)) ELSE s

Trim(s) == TrimEnd(TrimStart(s))

\* String.prototype.replace(/[class]+/g, rep): every maximal run of
\* characters of the class becomes one rep
RECURSIVE ReplaceRuns(_, _, _)
ReplaceRuns(s, class, rep) ==
    IF Len(s) = 0 THEN << >>
    ELSE IF Head(s) \in class
         THEN IF Len(s) > 1 /\ s[2] \in class
              THEN ReplaceRuns(Tail(s), class, rep)
              ELSE << rep >> \o ReplaceRuns(Tail(s), class, rep)
         ELSE << Head(s) >> \o ReplaceRuns(Tail(s), class, rep)

\* String.prototype.includes for a one-character needle
Includes(s, c) == \E i \in 1..Len(s) : s[i] = c

\* String.prototype.split(sep) for a one-character separator
RECURSIVE SplitFrom(_, _, _)
SplitFrom(s, sep, current) ==
    IF Len(s) = 0 THEN << current >>
    ELSE IF Head(s) = sep
         THEN << current >> \o SplitFrom(Tail(s), sep, << >>)
         ELSE SplitFrom(Tail(s), sep, Append(current, Head(s)))

Split(s, sep) == SplitFrom(s, sep, << >>)

Digit(d) == CASE d = 0 -> "0" [] d = 1 -> "1" [] d = 2 -> "2" [] d = 3 -> "3"
              [] d = 4 -> "4" [] d = 5 -> "5" [] d = 6 -> "6" [] d = 7 -> "7"
              [] d = 8 -> "8" [] d = 9 -> "9"

\* template-literal formatting of a non-negative integer
RECURSIVE NumberToString(_)
NumberToString(n) ==
    IF n < 10 THEN << Digit(n) >>
    ELSE NumberToString(n \div 10) \o << Digit(n % 10) >>

normalizeVariantValue(value) ==
    ReplaceRuns(ReplaceRuns(Trim(value), { ",", "=" }, "-"), WhiteSpace, "-")

----------------------------------------------------------------------------
(* Variant combinations *)

\* {} : the object without own keys
EmptyCombination == << >>

\* slip: { [key]: value }, the spread of the tail combination forgotten
SpreadWithoutRest(combo, key, value) == [ k \in { key } |-> value ]

\* { ...combo, [key]: value }
SpreadWith(combo, key, value) ==
    [ k \in (DOMAIN combo) \cup { key } |-> IF k = key THEN value ELSE combo[k] ]

\* combo[key], with a marker for a key the object does not own
Lookup(combo, key) ==
    IF key \in DOMAIN combo THEN [defined |-> TRUE, value |-> combo[key]]
                            ELSE [defined |-> FALSE]

\* slip: the two loops nested the other way round
CombineHeadFastest(head, tailCombinations) ==
    LET n == Len(head.values)
        m == Len(tailCombinations)
    IN  [ i \in 1..(n * m) |->
            SpreadWith(tailCombinations[((i - 1) \div n) + 1], head.name,
                       head.values[((i - 1) % n) + 1]) ]

\* the nested forEach of generateVariantCombinations: head.values outermost,
\* tailCombinations innermost, each result pushed in turn
CombineHeadSlowest(head, tailCombinations) ==
    LET n == Len(head.values)
        m == Len(tailCombinations)
    IN  [ i \in 1..(n * m) |->
            SpreadWith(tailCombinations[((i - 1) % m) + 1], head.name,
                       head.values[((i - 1) \div m) + 1]) ]

\* slip: no combination at all for no groups
NoGroupsNothing == << >>

\* if (!groups.length) return [{}]
NoGroupsResult == << EmptyCombination >>

RECURSIVE generateVariantCombinations(_)
generateVariantCombinations(groups) ==
    IF Len(groups) = 0 THEN NoGroupsResult
    ELSE CombineHeadSlowest(Head(groups), generateVariantCombinations(Tail(groups)))

\* an optional VariantSelector argument
NoSelector == [present |-> FALSE]
SomeSelector(map) == [present |-> TRUE, map |-> map]

\* slip: some instead of every
SomeSelectorEntry(combo, map) ==
    \E key \in DOMAIN map :
        Lookup(combo, key) = [defined |-> TRUE, value |-> map[key]]

\* Object.entries(selector).every(([key, value]) => combination[key] === value)
EverySelectorEntry(combo, map) ==
    \A key \in DOMAIN map :
        Lookup(combo, key) = [defined |-> TRUE, value |-> map[key]]

variantMatchesSelector(combo, sel) ==
    IF ~sel.present THEN TRUE ELSE EverySelectorEntry(combo, sel.map)

----------------------------------------------------------------------------
(* Validator *)

\* slip: duplicates collected in an array, once per repeated occurrence
NoteEveryRepeat(duplicates, seen, value) ==
    IF value \in seen THEN Append(duplicates, value) ELSE duplicates

\* one step of the forEach in findDuplicates: a value already seen joins the
\* set of duplicates (kept in insertion order, once)
NoteDuplicate(duplicates, seen, value) ==
    IF value \in seen /\ value \notin Range(duplicates)
    THEN Append(duplicates, value) ELSE duplicates

RECURSIVE FindDuplicatesFrom(_, _, _, _)
FindDuplicatesFrom(values, i, seen, duplicates) ==
    IF i > Len(values) THEN duplicates
    ELSE FindDuplicatesFrom(values, i + 1, seen \cup { values[i] },
                            NoteDuplicate(duplicates, seen, values[i]))

findDuplicates(values) == FindDuplicatesFrom(values, 1, {}, << >>)

HexDigits == { "0", "1", "2", "3", "4", "5", "6", "7", "8", "9",
               "a", "b", "c", "d", "e", "f", "A", "B", "C", "D", "E", "F" }
DecDigits == { "0", "1", "2", "3", "4", "5", "6", "7", "8", "9" }

\* /^#([0-9a-fA-F]{3}|[0-9a-fA-F]{6})$/
MatchesHex(s) ==
    /\ Len(s) \in { 4, 7 }
    /\ s[1] = "#"
    /\ \A i \in 2..Len(s) : s[i] \in HexDigits

\* Regular-expression matching by sets of positions: P holds the indices of
\* the next character to read after some match of the pattern so far.
AfterChar(P, s, c) == { p + 1 : p \in { q \in P : q <= Len(s) /\ s[q] = c } }
AfterStar(P, s, class) ==
    { q \in 1..(Len(s) + 1) :
        \E p \in P : p <= q /\ \A i \in p..(q - 1) : s[i] \in class }
AfterPlus(P, s, class) ==
    { q \in AfterStar(P, s, class) :
        \E p \in P : p < q /\ \A i \in p..(q - 1) : s[i] \in class }
RECURSIVE AfterLiteral(_, _, _)
AfterLiteral(P, s, lit) ==
    IF Len(lit) = 0 THEN P
    ELSE AfterLiteral(AfterChar(P, s, Head(lit)), s, Tail(lit))
\* \s*\d+\s*
AfterNumber(P, s) ==
    AfterStar(AfterPlus(AfterStar(P, s, WhiteSpace), s, DecDigits), s, WhiteSpace)
\* ,\s*(0|1|0?\.\d+)
AfterAlpha(P, s) ==
    LET A == AfterStar(AfterChar(P, s, ","), s, WhiteSpace)
    IN  AfterChar(A, s, "0") \cup AfterChar(A, s, "1")
        \cup AfterPlus(AfterChar(A \cup AfterChar(A, s, "0"), s, "."), s, DecDigits)

\* /^rgba?\((\s*\d+\s*,){2}\s*\d+\s*(,\s*(0|1|0?\.\d+))?\)$/
MatchesRgba(s) ==
    LET P1 == AfterLiteral({ 1 }, s, << "r", "g", "b" >>)
        P2 == AfterChar(P1 \cup AfterChar(P1, s, "a"), s, "(")
        P3 == AfterChar(AfterNumber(P2, s), s, ",")
        P4 == AfterChar(AfterNumber(P3, s), s, ",")
        P5 == AfterNumber(P4, s)
        P6 == AfterChar(P5 \cup AfterAlpha(P5, s), s, ")")
    IN  (Len(s) + 1) \in P6

isValidColor(value) == MatchesHex(Trim(value)) \/ MatchesRgba(Trim(value))

\* inspectFill: every fill or stroke contributes its color
inspectFill(fillArray) == [ i \in 1..Len(fillArray) |-> fillArray[i].color ]

\* inspectEffect: an effect contributes its color when it has a non-empty one
inspectEffect(effects) ==
    Flatten([ i \in 1..Len(effects) |->
                IF effects[i].hasColor /\ effects[i].color # << >>
                THEN << effects[i].color >> ELSE << >> ])

collectColorsFromElementStyle(elementStyle) ==
    inspectFill(elementStyle.fills) \o inspectFill(elementStyle.strokes)
        \o inspectEffect(elementStyle.effects)

collectColorsFromStyle(style) ==
    inspectFill(style.fills) \o inspectFill(style.strokes)
        \o inspectEffect(style.effects)
        \o Flatten([ i \in 1..Len(style.elements) |->
                       collectColorsFromElementStyle(style.elements[i]) ])

\* slip: the instance-swap catalog left out
collectBooleanAndText(defs) == defs.boolean \o defs.text

\* Object.keys of the three catalogs, boolean first, then text, then swap
collectAllBindings(defs) == defs.boolean \o defs.text \o defs.swap

Issue(code, about) == [code |-> code, about |-> about]

nameErrors(s) ==
    IF Trim(s.name) = << >> THEN << Issue("component.name.empty", << >>) >>
    ELSE << >>

groupDuplicateErrors(s) ==
    LET variantGroupNames == [ i \in 1..Len(s.variantGroups) |-> s.variantGroups[i].name ]
        duplicatedGroups == findDuplicates(variantGroupNames)
    IN  IF Len(duplicatedGroups) > 0
        THEN << Issue("variant.group.duplicate", duplicatedGroups) >> ELSE << >>

\* the suggestion for the index-th duplicate (index counted from 0)
FixName(dup, index) ==
    normalizeVariantValue(dup) \o << "_" >> \o NumberToString(index + 1)

groupAutoFixes(group) ==
    LET duplicates == findDuplicates(group.values)
    IN  [ i \in 1..Len(duplicates) |->
            [ code |-> "variant.value.duplicate",
              target |-> group.name \o << "." >> \o duplicates[i],
              suggestion |-> FixName(duplicates[i], i - 1) ] ]

groupValueErrors(group) ==
    LET duplicates == findDuplicates(group.values)
    IN  IF Len(duplicates) > 0
        THEN << Issue("variant.value.duplicate", << group.name >> \o duplicates) >>
        ELSE << >>

groupFormatWarnings(group) ==
    Flatten([ i \in 1..Len(group.values) |->
                IF Includes(group.values[i], ",") \/ Includes(group.values[i], "=")
                THEN << Issue("variant.value.format", << group.values[i] >>) >>
                ELSE << >> ])

stateDuplicateErrors(s) ==
    LET stateNames == [ i \in 1..Len(s.states) |-> s.states[i].name ]
        duplicateStates == findDuplicates(stateNames)
    IN  IF Len(duplicateStates) > 0
        THEN << Issue("state.duplicate", duplicateStates) >> ELSE << >>

stateColorErrors(state, index) ==
    LET colors == collectColorsFromStyle(state.style)
    IN  Flatten([ i \in 1..Len(colors) |->
                    IF ~isValidColor(colors[i])
                    THEN << Issue("style.color.invalid",
                                  << state.name, colors[i], NumberToString(index) >>) >>
                    ELSE << >> ])

propDuplicateErrors(s) ==
    LET duplicateProps == findDuplicates(collectAllBindings(s.propDefinitions))
    IN  IF Len(duplicateProps) > 0
        THEN << Issue("prop.duplicate", duplicateProps) >> ELSE << >>

bindingWarnings(s) ==
    LET propNames == collectAllBindings(s.propDefinitions)
    IN  Flatten([ i \in 1..Len(s.bindings) |->
                    IF s.bindings[i].propName \notin Range(propNames)
                    THEN << Issue("binding.unmatched", << s.bindings[i].propName >>) >>
                    ELSE << >> ])

LargeVariantCount == 50

\* slip: >= instead of >
IsLargeOrEqual(maxVariants) == maxVariants >= LargeVariantCount

IsLargeVariantCount(maxVariants) == maxVariants > LargeVariantCount

variantCountWarnings(s) ==
    LET maxVariants == Len(generateVariantCombinations(s.variantGroups))
    IN  IF IsLargeVariantCount(maxVariants)
        THEN << Issue("variant.count.large", << NumberToString(maxVariants) >>) >>
        ELSE << >>

\* slip: warnings count against ok
ValidationResultStrict(errors, warnings, autoFixes) ==
    [ ok |-> Len(errors) = 0 /\ Len(warnings) = 0,
      errors |-> errors,
      warnings |-> warnings,
      autoFixes |-> IF Len(autoFixes) > 0
                    THEN [defined |-> TRUE, list |-> autoFixes]
                    ELSE [defined |-> FALSE] ]

\* the returned ValidationResult
ValidationResultOf(errors, warnings, autoFixes) ==
    [ ok |-> Len(errors) = 0,
      errors |-> errors,
      warnings |-> warnings,
      autoFixes |-> IF Len(autoFixes) > 0
                    THEN [defined |-> TRUE, list |-> autoFixes]
                    ELSE [defined |-> FALSE] ]

validateSpec(s) ==
    LET groups == s.variantGroups
        errors ==
            nameErrors(s)
            \o groupDuplicateErrors(s)
            \o Flatten([ i \in 1..Len(groups) |-> groupValueErrors(groups[i]) ])
            \o stateDuplicateErrors(s)
            \o Flatten([ i \in 1..Len(s.states) |-> stateColorErrors(s.states[i], i - 1) ])
            \o propDuplicateErrors(s)
        warnings ==
            Flatten([ i \in 1..Len(groups) |-> groupFormatWarnings(groups[i]) ])
            \o bindingWarnings(s)
            \o variantCountWarnings(s)
        autoFixes == Flatten([ i \in 1..Len(groups) |-> groupAutoFixes(groups[i]) ])
    IN  ValidationResultOf(errors, warnings, autoFixes)

\* validation.autoFixes ?? []
AutoFixesOrEmpty(result) ==
    IF result.autoFixes.defined THEN result.autoFixes.list ELSE << >>

----------------------------------------------------------------------------
(* Autofixes.  applyAutoFixes works on a store of objects: the caller's     *)
(* specification is the object at one reference, the clone is a new object *)
(* and every assignment goes to the object the clone reference names.      *)

\* slip: no copy, the "clone" is the caller's object
deepCloneShared(heap, ref) == [heap |-> heap, ref |-> ref]

\* deepCloneSpec: a new object with the same value
deepCloneSpec(heap, ref) ==
    [heap |-> Append(heap, heap[ref]), ref |-> Len(heap) + 1]

\* the body of the forEach in applyAutoFixes, on the value of the clone
applyFix(value, fix) ==
    IF fix.code # "variant.value.duplicate" THEN value
    ELSE LET parts == Split(fix.target, ".")
             groupName == parts[1]
             names == [ i \in 1..Len(value.variantGroups) |-> value.variantGroups[i].name ]
             g == IndexOf(names, groupName)
         IN  IF g = 0 \/ Len(parts) < 2 THEN value
             ELSE LET index == IndexOf(value.variantGroups[g].values, parts[2])
                  IN  IF index = 0 THEN value
                      ELSE [value EXCEPT !.variantGroups[g].values[index] = fix.suggestion]

RECURSIVE applyFixesFrom(_, _, _)
applyFixesFrom(value, fixList, i) ==
    IF i > Len(fixList) THEN value
    ELSE applyFixesFrom(applyFix(value, fixList[i]), fixList, i + 1)

applyAutoFixes(heap, ref, fixList) ==
    LET clone == deepCloneSpec(heap, ref)
    IN  [ heap |-> [clone.heap EXCEPT ![clone.ref] = applyFixesFrom(@, fixList, 1)],
          ref |-> clone.ref ]

----------------------------------------------------------------------------
(* Inputs *)

GroupNames == { << "s" >>, << "t" >> }
ValueInputs == { << "a" >>, << "b" >> }

\* a ComponentSpec without variants, states, properties or bindings
EmptyProps == [boolean |-> << >>, text |-> << >>, swap |-> << >>]
DefaultSpec ==
    [ name |-> << "B" >>, variantGroups |-> << >>, states |-> << >>,
      propDefinitions |-> EmptyProps, bindings |-> << >> ]

\* the list of groups with the given names and value lists
GroupsOf(names, values) ==
    [ i \in 1..Len(names) |-> [name |-> names[i], values |-> values[i]] ]
WithGroups(groups) == [DefaultSpec EXCEPT !.variantGroups = groups]

\* value lists of at most MaxValues values, repeated values included
ValueListInputs == SeqUpTo(ValueInputs, MaxValues)

NoValidation == [ok |-> FALSE, errors |-> << >>, warnings |-> << >>, autoFixes |-> [defined |-> FALSE]]

\* the variables a run does not use
IdleGenerator == combinations = << >> /\ again = << >>
IdleMatcher == combination = EmptyCombination /\ selector = NoSelector /\ matched = FALSE
IdleValidator == validation = NoValidation
IdleFixer ==
    fixes = << >> /\ fixed = DefaultSpec /\ sameObject = FALSE /\ revalidation = NoValidation

\* an element without role, paint or children
NoRole == [present |-> FALSE]
NoElement ==
    [ id |-> << >>, role |-> NoRole, type |-> "FRAME", fills |-> << >>,
      strokes |-> << >>, effects |-> << >>, cornerRadius |-> [defined |-> FALSE],
      children |-> << >> ]
NoPropValues == [boolean |-> << >>, text |-> << >>, swap |-> << >>]
NoContext == [nodeByElementId |-> << >>, nodesByRole |-> << >>]
NoComponentSet == [defined |-> FALSE]
NoMessage == [type |-> "none"]
NoStored == [defined |-> FALSE]

IdlePreview ==
    /\ activeVariants = EmptyCombination /\ element = NoElement /\ isRoot = FALSE
    /\ activeStates = << >> /\ computed = << >> /\ recomputed = << >>
    /\ previewTargets = << >> /\ previewProps = NoPropValues
IdleBuilder ==
    /\ context = NoContext /\ references = << >> /\ warned = << >>
    /\ propValues = NoPropValues /\ components = << >> /\ componentSet = NoComponentSet
IdleHost ==
    /\ msg = NoMessage /\ posted = << >> /\ stored = NoStored /\ page = << >>
    /\ loads = << >> /\ handled = 0
NoPrompt == [asked |-> FALSE]
IdleEditor ==
    /\ objects = << >> /\ held = 0 /\ stateIndex = 0 /\ largeVariantConfirmed = FALSE
    /\ stateValidation = NoValidation /\ history = << >>
    /\ prompted = NoPrompt /\ outbox = << >> /\ delivered = 0 /\ edits = 0
IdleLater == IdlePreview /\ IdleBuilder /\ IdleHost /\ IdleEditor

----------------------------------------------------------------------------
(* The variant generator, called for the preview and again for generation *)

\* every list of at most MaxGroups groups, repeated names included
InitVariants ==
    /\ \E k \in 0..MaxGroups :
         \E names \in [1..k -> GroupNames], values \in [1..k -> ValueListInputs] :
            spec = WithGroups(GroupsOf(names, values))
    /\ pc = "ready"
    /\ IdleGenerator /\ IdleMatcher /\ IdleValidator /\ IdleFixer
    /\ IdleLater

Generate ==
    /\ pc = "ready"
    /\ combinations' = generateVariantCombinations(spec.variantGroups)
    /\ pc' = "generated"
    /\ UNCHANGED << spec, again, combination, selector, matched, validation,
                    fixes, fixed, sameObject, revalidation >>
    /\ UNCHANGED << previewVars, builderVars, hostVars, editorVars >>

GenerateAgain ==
    /\ pc = "generated"
    /\ again' = generateVariantCombinations(spec.variantGroups)
    /\ pc' = "regenerated"
    /\ UNCHANGED << spec, combinations, combination, selector, matched, validation,
                    fixes, fixed, sameObject, revalidation >>
    /\ UNCHANGED << previewVars, builderVars, hostVars, editorVars >>

NextVariants == Generate \/ GenerateAgain

SpecVariants == InitVariants /\ [][NextVariants]_vars

GroupNamesOf(groups) == { groups[i].name : i \in 1..Len(groups) }
GroupSizesOf(groups) == [ i \in 1..Len(groups) |-> Len(groups[i].values) ]
HasUniqueNames(groups) ==
    \A i, j \in 1..Len(groups) : groups[i].name = groups[j].name => i = j
HasUniqueValues(groups) ==
    \A i \in 1..Len(groups) : IsDuplicateFree(groups[i].values)
Generated == pc \in { "generated", "regenerated" }

PairwiseDistinct(s) == IsDuplicateFree(s)
FullyPopulated(groups, combo) ==
    /\ DOMAIN combo = GroupNamesOf(groups)
    /\ \A i \in 1..Len(groups) : combo[groups[i].name] \in Range(groups[i].values)

\* C1 as stated: for every list of variant groups the result has as many
\* elements as the product of the groups' value counts, its elements are
\* pairwise distinct, and each maps every group name to one of that group's
\* values.
C1_AnyGroups ==
    Generated =>
        /\ Len(combinations) = Product(GroupSizesOf(spec.variantGroups))
        /\ PairwiseDistinct(combinations)
        /\ \A i \in 1..Len(combinations) :
               FullyPopulated(spec.variantGroups, combinations[i])

\* C1 amended: the length is the product of the value counts for every list
\* of groups; when the group names are pairwise distinct and no group
\* repeats a value, the combinations are pairwise distinct and each maps
\* every group name to one of that group's values.
C1_Product ==
    Generated =>
        /\ Len(combinations) = Product(GroupSizesOf(spec.variantGroups))
        /\ (HasUniqueNames(spec.variantGroups) /\ HasUniqueValues(spec.variantGroups)) =>
               /\ PairwiseDistinct(combinations)
               /\ \A i \in 1..Len(combinations) :
                      FullyPopulated(spec.variantGroups, combinations[i])

C1_Witness ==
    /\ pc = "generated"
    /\ Len(spec.variantGroups) = 2
    /\ HasUniqueNames(spec.variantGroups) /\ HasUniqueValues(spec.variantGroups)
    /\ Len(combinations) = 4

\* C2: for no variant groups the result is exactly one combination, the
\* empty mapping.
C2_NoGroups ==
    (Generated /\ Len(spec.variantGroups) = 0) =>
        /\ Len(combinations) = 1
        /\ DOMAIN combinations[1] = {}

C2_Witness == pc = "generated" /\ spec.variantGroups = << >> /\ Len(combinations) = 1

\* the number of consecutive combinations over which group k keeps its value
Stride(groups, k) == Product(SubSeq(GroupSizesOf(groups), k + 1, Len(groups)))
IsFirstWithName(groups, k) == \A j \in 1..(k - 1) : groups[j].name # groups[k].name

\* C3: the i-th combination gives each group the value whose index is the
\* group's digit of i - 1 written in mixed radix, first group most
\* significant, values in declared order (for a repeated group name, the
\* first group of that name); a second call returns the same sequence.
C3_Order ==
    /\ Generated =>
         \A i \in 1..Len(combinations) : \A k \in 1..Len(spec.variantGroups) :
            LET groups == spec.variantGroups
            IN  IsFirstWithName(groups, k) =>
                  combinations[i][groups[k].name] =
                     groups[k].values[(((i - 1) \div Stride(groups, k))
                                          % Len(groups[k].values)) + 1]
    /\ pc = "regenerated" => again = combinations

C3_Witness ==
    /\ pc = "regenerated"
    /\ spec.variantGroups =
          << [name |-> << "s" >>, values |-> << << "a" >>, << "b" >> >>],
             [name |-> << "t" >>, values |-> << << "b" >>, << "a" >> >>] >>
    /\ combinations[2] = (<< "s" >> :> << "a" >> @@ << "t" >> :> << "a" >>)
    /\ combinations[3] = (<< "s" >> :> << "b" >> @@ << "t" >> :> << "b" >>)

----------------------------------------------------------------------------
(* Selector matching *)

SelectorKeys == GroupNames \cup { << "u" >> }
PartialMaps(K, V) == UNION { [D -> V] : D \in SUBSET K }
CombinationInputs == PartialMaps(SelectorKeys, ValueInputs)
SelectorInputs ==
    { NoSelector } \cup { SomeSelector(m) : m \in PartialMaps(SelectorKeys, ValueInputs) }

InitMatch ==
    /\ spec = DefaultSpec
    /\ pc = "ready"
    /\ combination \in CombinationInputs
    /\ selector \in SelectorInputs
    /\ matched = FALSE
    /\ IdleGenerator /\ IdleValidator /\ IdleFixer
    /\ IdleLater

Match ==
    /\ pc = "ready"
    /\ matched' = variantMatchesSelector(combination, selector)
    /\ pc' = "matched"
    /\ UNCHANGED << spec, combinations, again, combination, selector, validation,
                    fixes, fixed, sameObject, revalidation >>
    /\ UNCHANGED << previewVars, builderVars, hostVars, editorVars >>

NextMatch == Match

SpecMatch == InitMatch /\ [][NextMatch]_vars

\* C4: the result is true for an absent selector, and otherwise true exactly
\* when every key of the selector is a key of the combination with the same
\* value; so the empty selector matches and a selector naming a key the
\* combination lacks does not.
C4_Matches ==
    pc = "matched" =>
        /\ ~selector.present => matched
        /\ selector.present =>
              /\ matched <=> \A k \in DOMAIN selector.map :
                                 /\ k \in DOMAIN combination
                                 /\ combination[k] = selector.map[k]
              /\ DOMAIN selector.map = {} => matched
              /\ (\E k \in DOMAIN selector.map : k \notin DOMAIN combination) => ~matched

C4_Witness ==
    /\ pc = "matched"
    /\ selector.present
    /\ DOMAIN selector.map = { << "s" >>, << "t" >> }
    /\ DOMAIN combination = { << "s" >>, << "u" >> }
    /\ combination[<< "s" >>] = selector.map[<< "s" >>]
    /\ ~matched

----------------------------------------------------------------------------
(* The validator on specifications with every kind of defect *)

\* values v1 .. vn
NumberedValues(n) == [ i \in 1..n |-> << "v" >> \o NumberToString(i) ]

ComponentNameSamples == { << >>, << " " >>, << "B" >> }

VariantGroupSamples ==
    { << >>,
      << [name |-> << "s" >>, values |-> << << "a" >>, << "b" >> >>],
         [name |-> << "t" >>, values |-> << << "a" >> >>] >>,
      << [name |-> << "s" >>, values |-> << << "a" >>, << "a" >> >>] >>,
      << [name |-> << "s" >>, values |-> << << "a" >> >>],
         [name |-> << "s" >>, values |-> << << "b" >> >>] >>,
      << [name |-> << "s" >>, values |-> << << "a", "," >>, << "a", "=", "b" >> >>] >>,
      << [name |-> << "s" >>, values |-> NumberedValues(8)],
         [name |-> << "t" >>, values |-> << << "a", "," >> >> \o NumberedValues(6)] >> }

ColorFff == << "#", "f", "f", "f" >>
Color12345 == << "#", "1", "2", "3", "4", "5" >>
ColorRgba == << "r", "g", "b", "a", "(", "2", "5", "5", ",", "0", ",", "0", ",",
                "0", ".", "2", ")" >>
ColorRed == << "r", "e", "d" >>

Fill(color) == [color |-> color]
ColorEffect(color) == [hasColor |-> TRUE, color |-> color]
BlurEffect == [hasColor |-> FALSE, color |-> << >>]
NoElementStyle == [fills |-> << >>, strokes |-> << >>, effects |-> << >>]
NoStyle == [fills |-> << >>, strokes |-> << >>, effects |-> << >>, elements |-> << >>]
State(name, style) == [name |-> name, style |-> style]

StateListSamples ==
    { << >>,
      << State(<< "x" >>, [NoStyle EXCEPT !.fills = << Fill(ColorFff) >>]) >>,
      << State(<< "x" >>, [NoStyle EXCEPT !.strokes = << Fill(Color12345) >>]) >>,
      << State(<< "x" >>, [NoStyle EXCEPT !.fills = << Fill(ColorRgba) >>]),
         State(<< "x" >>, NoStyle) >>,
      << State(<< "x" >>,
               [NoStyle EXCEPT !.elements =
                   << [NoElementStyle EXCEPT !.effects = << ColorEffect(ColorRed) >>] >>]),
         State(<< "y" >>,
               [NoStyle EXCEPT !.effects = << BlurEffect, ColorEffect(ColorRgba) >>]) >> }

PropSamples ==
    { EmptyProps,
      [boolean |-> << << "p" >> >>, text |-> << << "q" >> >>, swap |-> << >>],
      [boolean |-> << << "p" >> >>, text |-> << << "p" >> >>, swap |-> << >>] }

Binding(propName) == [propName |-> propName]
BindingSamples == { << >>, << Binding(<< "p" >>) >>, << Binding(<< "r" >>) >> }

InitValidate ==
    /\ \E n \in ComponentNameSamples, g \in VariantGroupSamples,
          st \in StateListSamples, d \in PropSamples, b \in BindingSamples :
         spec = [ name |-> n, variantGroups |-> g, states |-> st,
                  propDefinitions |-> d, bindings |-> b ]
    /\ pc = "ready"
    /\ IdleGenerator /\ IdleMatcher /\ IdleValidator /\ IdleFixer
    /\ IdleLater

Validate ==
    /\ pc = "ready"
    /\ validation' = validateSpec(spec)
    /\ pc' = "validated"
    /\ UNCHANGED << spec, combinations, again, combination, selector, matched,
                    fixes, fixed, sameObject, revalidation >>
    /\ UNCHANGED << previewVars, builderVars, hostVars, editorVars >>

NextValidate == Validate

SpecValidate == InitValidate /\ [][NextValidate]_vars

HasCode(issues, code) == \E i \in 1..Len(issues) : issues[i].code = code
CountCode(issues, code) == Cardinality({ i \in 1..Len(issues) : issues[i].code = code })

\* C5: ok is true exactly when the errors list is empty, whatever the
\* warnings: a result with warnings and no error has ok = true.
C5_OkIffNoErrors ==
    pc = "validated" =>
        /\ validation.ok <=> Len(validation.errors) = 0
        /\ (Len(validation.errors) = 0 /\ Len(validation.warnings) > 0) => validation.ok

C5_Witness ==
    /\ pc = "validated"
    /\ validation.ok
    /\ HasCode(validation.warnings, "variant.value.format")
    /\ HasCode(validation.warnings, "binding.unmatched")
    /\ HasCode(validation.warnings, "variant.count.large")
    /\ Len(validation.warnings) >= 3

----------------------------------------------------------------------------
(* Duplicate values: validate, apply the suggested fixes, validate again *)

DupValueInputs == { << "a" >>, << "a", "," >> }
PositionName(i) == << "g" >> \o NumberToString(i)
\* group names: all different, or all the same
NameListsFor(k) ==
    { [ i \in 1..k |-> PositionName(i) ], [ i \in 1..k |-> PositionName(1) ] }
\* the first group holds up to MaxDupValues values, the later ones up to
\* MaxValues; repeated values included
DupValueListInputs == SeqUpTo(DupValueInputs, MaxDupValues)
ShortDupValueListInputs == SeqUpTo(DupValueInputs, MaxValues)

InitDup ==
    /\ \E k \in 0..MaxGroups :
         \E names \in NameListsFor(k), first \in DupValueListInputs,
            rest \in [2..k -> ShortDupValueListInputs] :
            spec = WithGroups([ i \in 1..k |->
                       [name |-> names[i], values |-> IF i = 1 THEN first ELSE rest[i]] ])
    /\ pc = "ready"
    /\ IdleGenerator /\ IdleMatcher /\ IdleValidator /\ IdleFixer
    /\ IdleLater

\* const fixed = applyAutoFixes(spec, fixList): the caller's object after the
\* call, the returned object, and whether they are one object
CallApplyAutoFixes(fixList) ==
    LET r == applyAutoFixes(<< spec >>, 1, fixList)
    IN  /\ spec' = r.heap[1]
        /\ fixed' = r.heap[r.ref]
        /\ sameObject' = (r.ref = 1)
        /\ fixes' = fixList

ApplySuggestedFixes ==
    /\ pc = "validated"
    /\ CallApplyAutoFixes(AutoFixesOrEmpty(validation))
    /\ pc' = "fixed"
    /\ UNCHANGED << combinations, again, combination, selector, matched,
                    validation, revalidation >>
    /\ UNCHANGED << previewVars, builderVars, hostVars, editorVars >>

Revalidate ==
    /\ pc = "fixed"
    /\ revalidation' = validateSpec(fixed)
    /\ pc' = "revalidated"
    /\ UNCHANGED << spec, combinations, again, combination, selector, matched,
                    validation, fixes, fixed, sameObject >>
    /\ UNCHANGED << previewVars, builderVars, hostVars, editorVars >>

NextDup == Validate \/ ApplySuggestedFixes \/ Revalidate

SpecDup == InitDup /\ [][NextDup]_vars

\* the values a list holds more than once
RepeatedValues(values) ==
    { v \in Range(values) : Cardinality({ i \in 1..Len(values) : values[i] = v }) >= 2 }
OffendingGroups(groups) ==
    { i \in 1..Len(groups) : RepeatedValues(groups[i].values) # {} }
RepeatedValueCounts(groups) ==
    [ i \in 1..Len(groups) |-> Cardinality(RepeatedValues(groups[i].values)) ]

\* C6: when some variant group repeats a value, ok is false, there is one
\* variant.value.duplicate error per group that repeats a value, and one
\* autofix per repeated value of each group, each with that code and the
\* target <group name>.<value>.
C6_DuplicateValues ==
    (pc = "validated" /\ OffendingGroups(spec.variantGroups) # {}) =>
        LET groups == spec.variantGroups
            autoFixes == AutoFixesOrEmpty(validation)
        IN  /\ ~validation.ok
            /\ CountCode(validation.errors, "variant.value.duplicate")
                  = Cardinality(OffendingGroups(groups))
            /\ Len(autoFixes) = Sum(RepeatedValueCounts(groups))
            /\ \A i \in 1..Len(autoFixes) : autoFixes[i].code = "variant.value.duplicate"
            /\ \A g \in 1..Len(groups) : \A v \in RepeatedValues(groups[g].values) :
                  \E i \in 1..Len(autoFixes) :
                      autoFixes[i].target = groups[g].name \o << "." >> \o v

C6_Witness ==
    /\ pc = "validated"
    /\ Len(spec.variantGroups) = 2
    /\ Cardinality(OffendingGroups(spec.variantGroups)) = 2
    /\ spec.variantGroups[1].values = << << "a" >>, << "a", "," >>, << "a", "," >>, << "a" >> >>
    /\ Len(AutoFixesOrEmpty(validation)) = 3
    /\ AutoFixesOrEmpty(validation)[1].target = << "g", "1", ".", "a", "," >>
    /\ AutoFixesOrEmpty(validation)[2].suggestion = << "a", "_", "2" >>
    /\ CountCode(validation.errors, "variant.value.duplicate") = 2

OnlyDuplicateValueErrors(result) ==
    /\ Len(result.errors) > 0
    /\ \A i \in 1..Len(result.errors) : result.errors[i].code = "variant.value.duplicate"

\* C7: when the only validation errors are variant.value.duplicate, the
\* specification returned by applyAutoFixes(spec, validateSpec(spec).autoFixes)
\* validates with ok = true.
C7_FixesValidate ==
    (pc = "revalidated" /\ OnlyDuplicateValueErrors(validation)) => revalidation.ok

----------------------------------------------------------------------------
(* applyAutoFixes on arbitrary fix lists *)

ValueListSamples ==
    { << << "a" >> >>, << << "a" >>, << "a" >> >>, << << "a", "," >>, << "b" >> >> }

Fix(code, target) == [code |-> code, target |-> target, suggestion |-> << "z" >>]
FixInputs ==
    { Fix("variant.value.duplicate", << "s", ".", "a" >>),
      Fix("variant.value.duplicate", << "t", ".", "b" >>),
      Fix("variant.value.duplicate", << "u", ".", "a" >>),
      Fix("variant.value.duplicate", << "s", ".", "c" >>),
      Fix("variant.value.duplicate", << "s" >>),
      Fix("prop.duplicate", << "s", ".", "a" >>) }

InitFix ==
    /\ \E k \in 0..MaxGroups :
         \E names \in [1..k -> GroupNames], values \in [1..k -> ValueListSamples] :
            spec = WithGroups(GroupsOf(names, values))
    /\ \E n \in 0..MaxFixes : fixes \in [1..n -> FixInputs]
    /\ pc = "ready"
    /\ fixed = DefaultSpec /\ sameObject = FALSE /\ revalidation = NoValidation
    /\ IdleGenerator /\ IdleMatcher /\ IdleValidator
    /\ IdleLater

ApplyGivenFixes ==
    /\ pc = "ready"
    /\ CallApplyAutoFixes(fixes)
    /\ pc' = "fixed"
    /\ UNCHANGED << combinations, again, combination, selector, matched,
                    validation, revalidation >>
    /\ UNCHANGED << previewVars, builderVars, hostVars, editorVars >>

NextFix == ApplyGivenFixes

SpecFix == InitFix /\ [][NextFix]_vars

\* a fix that changes nothing: another code, no group of the name before the
\* first ".", or no such value in the first group of that name
FixFindsNothing(s, fix) ==
    \/ fix.code # "variant.value.duplicate"
    \/ LET parts == Split(fix.target, ".")
           named == { g \in 1..Len(s.variantGroups) : s.variantGroups[g].name = parts[1] }
       IN  \/ named = {}
           \/ Len(parts) < 2
           \/ \A g \in named :
                 (\A h \in named : g <= h) => parts[2] \notin Range(s.variantGroups[g].values)

\* C8: a call of applyAutoFixes leaves the caller's specification as it was
\* and returns another object; when every fix has another code or finds no
\* group or value, the returned specification equals the given one.
C8_Frame ==
    [][ (pc # "fixed" /\ pc' = "fixed") =>
            /\ spec' = spec
            /\ ~sameObject'
            /\ (\A i \in 1..Len(fixes') : FixFindsNothing(spec, fixes'[i])) => fixed' = spec
      ]_vars

C8_Witness ==
    /\ pc = "fixed"
    /\ Len(fixes) = 2
    /\ fixes[1].code = "prop.duplicate"
    /\ ~FixFindsNothing(spec, fixes[2])
    /\ fixed # spec
    /\ ~sameObject

----------------------------------------------------------------------------
(* Property catalogs *)

PropKeys == { << "p" >>, << "q" >> }
\* Object.keys of a catalog: its keys in insertion order, none twice
CatalogInputs ==
    { keys \in SeqUpTo(PropKeys, Cardinality(PropKeys)) : IsDuplicateFree(keys) }
BindingNameInputs == { << "p" >>, << "r" >> }

InitProps ==
    /\ \E b \in CatalogInputs, tx \in CatalogInputs, sw \in CatalogInputs :
         \E n \in 0..MaxBindings : \E names \in [1..n -> BindingNameInputs] :
            spec = [DefaultSpec EXCEPT
                      !.propDefinitions = [boolean |-> b, text |-> tx, swap |-> sw],
                      !.bindings = [ i \in 1..n |-> Binding(names[i]) ]]
    /\ pc = "ready"
    /\ IdleGenerator /\ IdleMatcher /\ IdleValidator /\ IdleFixer
    /\ IdleLater

NextProps == Validate

SpecProps == InitProps /\ [][NextProps]_vars

Catalogs(defs) == << defs.boolean, defs.text, defs.swap >>
\* the keys that two different catalogs both hold
SharedKeys(defs) ==
    { key \in PropKeys :
        \E c, d \in 1..3 : c # d /\ key \in Range(Catalogs(defs)[c])
                                 /\ key \in Range(Catalogs(defs)[d]) }
\* a key held twice by one catalog
HasKeyTwiceInOneCatalog(defs) == \E c \in 1..3 : ~IsDuplicateFree(Catalogs(defs)[c])

----------------------------------------------------------------------------
(* The size of the variant space *)

CountSizes == { 1, 2, 3, 5, 10, 17 }
CountNameInputs == { << >>, << "B" >> }

\* groups of distinct names and distinct values, of the given sizes
InitCount ==
    /\ \E n \in CountNameInputs : \E k \in 0..MaxGroups : \E sizes \in [1..k -> CountSizes] :
         spec = [DefaultSpec EXCEPT
                   !.name = n,
                   !.variantGroups =
                       [ i \in 1..k |-> [name |-> PositionName(i),
                                          values |-> NumberedValues(sizes[i])] ]]
    /\ pc = "ready"
    /\ IdleGenerator /\ IdleMatcher /\ IdleValidator /\ IdleFixer
    /\ IdleLater

NextCount == Validate

SpecCount == InitCount /\ [][NextCount]_vars

VariantCount(s) == Product(GroupSizesOf(s.variantGroups))

\* C10: the variant.count.large warning is present, once, exactly when the
\* number of combinations is greater than 50 (not at 50, at 51); it is never
\* an error, and the errors are those of the same specification without its
\* variant groups (the groups of these runs have no defect of their own).
C10_LargeCount ==
    pc = "validated" =>
        /\ HasCode(validation.warnings, "variant.count.large") <=> VariantCount(spec) > 50
        /\ VariantCount(spec) = 50 => ~HasCode(validation.warnings, "variant.count.large")
        /\ VariantCount(spec) = 51 => HasCode(validation.warnings, "variant.count.large")
        /\ CountCode(validation.warnings, "variant.count.large") <= 1
        /\ ~HasCode(validation.errors, "variant.count.large")
        /\ validation.errors = validateSpec([spec EXCEPT !.variantGroups = << >>]).errors
        /\ validation.ok <=> Len(nameErrors(spec)) = 0

C10_Witness ==
    /\ pc = "validated"
    /\ VariantCount(spec) = 51
    /\ validation.warnings = << Issue("variant.count.large", << << "5", "1" >> >>) >>
    /\ validation.ok

----------------------------------------------------------------------------
(* ui.ts: the style cascade of the preview *)

\* active states per preview call
MaxStates == 2

\* null and a non-null argument
Null == [present |-> FALSE]
Some(x) == [present |-> TRUE, value |-> x]

HexLower == << "0", "1", "2", "3", "4", "5", "6", "7", "8", "9",
               "a", "b", "c", "d", "e", "f" >>
HexUpper == << "0", "1", "2", "3", "4", "5", "6", "7", "8", "9",
               "A", "B", "C", "D", "E", "F" >>
HexValue(c) ==
    IF IndexOf(HexLower, c) > 0 THEN IndexOf(HexLower, c) - 1
                                ELSE IndexOf(HexUpper, c) - 1

\* parseInt(slice, 16) of a two-character slice without sign or blank: the
\* longest prefix of hex digits, NaN when the first character is none
parseInt16(slice) ==
    IF Len(slice) = 0 \/ slice[1] \notin HexDigits THEN [nan |-> TRUE]
    ELSE IF Len(slice) = 1 \/ slice[2] \notin HexDigits
         THEN [nan |-> FALSE, value |-> HexValue(slice[1])]
         ELSE [nan |-> FALSE, value |-> 16 * HexValue(slice[1]) + HexValue(slice[2])]

\* a parsed number inside a template literal
ShowParsed(n) == IF n.nan THEN << "N", "a", "N" >> ELSE NumberToString(n.value)

Px == << "p", "x" >>

toCssColor(color, opacity) ==
    IF Len(color) = 7 /\ color[1] = "#"
    THEN << "r", "g", "b", "a", "(" >>
            \o ShowParsed(parseInt16(SubSeq(color, 2, 3))) \o << ",", " " >>
            \o ShowParsed(parseInt16(SubSeq(color, 4, 5))) \o << ",", " " >>
            \o ShowParsed(parseInt16(SubSeq(color, 6, 7))) \o << ",", " " >>
            \o (IF opacity.defined THEN NumberToString(opacity.value) ELSE << "1" >>)
            \o << ")" >>
    ELSE color

\* style.elements[key]: the entry under an own key, undefined otherwise
RECURSIVE ElementStyleAt(_, _)
ElementStyleAt(elements, key) ==
    IF Len(elements) = 0 THEN Null
    ELSE IF Head(elements).key = key THEN Some(Head(elements))
         ELSE ElementStyleAt(Tail(elements), key)

\* state.style.elements[element.role ?? element.id] ?? state.style.elements[element.id]
getElementStyleForState(stateSpec, elem) ==
    LET first == ElementStyleAt(stateSpec.style.elements,
                                IF elem.role.present THEN elem.role.value ELSE elem.id)
    IN  IF first.present THEN first
        ELSE ElementStyleAt(stateSpec.style.elements, elem.id)

\* the radius text of a CornerRadiusSpec, a number or four corners
RadiusText(corner) ==
    IF corner.uniform THEN NumberToString(corner.value) \o Px
    ELSE NumberToString(corner.tl) \o Px \o << " " >> \o NumberToString(corner.tr) \o Px
            \o << " " >> \o NumberToString(corner.br) \o Px
            \o << " " >> \o NumberToString(corner.bl) \o Px

ShadowText(effect) ==
    NumberToString(effect.offset.x) \o Px \o << " " >>
        \o NumberToString(effect.offset.y) \o Px \o << " " >>
        \o NumberToString(effect.radius) \o Px \o << " " >>
        \o NumberToString(IF effect.spread.defined THEN effect.spread.value ELSE 0)
        \o Px \o << " " >> \o toCssColor(effect.color, effect.opacity)

\* one field of a ComputedStyle, or no field at all
Field(defined, name, value) == IF defined THEN name :> value ELSE << >>

\* createComputedStyle(element, style); each caller passes null for one of the
\* two, so an omitted list and an empty one are the same to every test here
createComputedStyle(elem, style) ==
    LET pick(ofStyle, ofElement, none) ==
            IF style.present /\ ofStyle # none THEN ofStyle
            ELSE IF elem.present THEN ofElement ELSE none
        fillList == pick(IF style.present THEN style.value.fills ELSE << >>,
                         IF elem.present THEN elem.value.fills ELSE << >>, << >>)
        strokeList == pick(IF style.present THEN style.value.strokes ELSE << >>,
                           IF elem.present THEN elem.value.strokes ELSE << >>, << >>)
        corner == pick(IF style.present THEN style.value.cornerRadius ELSE [defined |-> FALSE],
                       IF elem.present THEN elem.value.cornerRadius ELSE [defined |-> FALSE],
                       [defined |-> FALSE])
        effectList == pick(IF style.present THEN style.value.effects ELSE << >>,
                           IF elem.present THEN elem.value.effects ELSE << >>, << >>)
        perElement ==
            IF elem.present /\ style.present /\ elem.value.role.present
            THEN LET byRole == ElementStyleAt(style.value.elements, elem.value.role.value)
                 IN  IF byRole.present THEN byRole
                     ELSE ElementStyleAt(style.value.elements, elem.value.id)
            ELSE Null
    IN  Field(perElement.present /\ perElement.value.fills # << >>, "fill",
              toCssColor(perElement.value.fills[1].color, perElement.value.fills[1].opacity))
        @@ Field(perElement.present /\ perElement.value.strokes # << >>, "borderColor",
              toCssColor(perElement.value.strokes[1].color, perElement.value.strokes[1].opacity))
        @@ Field(perElement.present /\ perElement.value.textStyle.defined, "textStyle",
              perElement.value.textStyle)
        @@ Field(fillList # << >>, "fill",
              toCssColor(fillList[1].color, fillList[1].opacity))
        @@ Field(strokeList # << >>, "borderColor",
              toCssColor(strokeList[1].color, strokeList[1].opacity))
        @@ Field(strokeList # << >>, "borderWidth",
              IF strokeList[1].weight.defined THEN strokeList[1].weight.value ELSE 1)
        @@ Field(corner.defined, "radius", RadiusText(corner))
        @@ Field(effectList # << >>
                    /\ effectList[1].type \in { "DROP_SHADOW", "INNER_SHADOW" },
                 "shadow", ShadowText(effectList[1]))
        @@ Field(elem.present /\ elem.value.type = "TEXT" /\ elem.value.fills # << >>,
                 "textColor",
                 toCssColor(elem.value.fills[1].color, elem.value.fills[1].opacity))
        @@ Field(style.present /\ style.value.textStyle.defined, "textStyle",
                 style.value.textStyle)

\* slip: Object.assign(source, target), the earlier value kept
mergeKeepingTarget(target, source) == target @@ source

\* Object.assign(target, source): every own field of source replaces target's
mergeComputedStyle(target, source) == source @@ target

\* the merges of the active states, in their order: the root takes each
\* state's own style, every element the state's entry for that element
RECURSIVE MergeStates(_, _, _, _)
MergeStates(style, states, elem, root) ==
    IF Len(states) = 0 THEN style
    ELSE LET stateSpec == Head(states)
             withRoot ==
                 IF root
                 THEN mergeComputedStyle(style,
                          createComputedStyle(Null, Some(stateSpec.style)))
                 ELSE style
             elementStyle == getElementStyleForState(stateSpec, elem)
             withElement ==
                 IF elementStyle.present
                 THEN mergeComputedStyle(withRoot, createComputedStyle(Null, elementStyle))
                 ELSE withRoot
         IN  MergeStates(withElement, Tail(states), elem, root)

\* the ComputedStyle applyPreviewStyles builds before it writes the node
applyPreviewStyles(elem, states, root, baseStyle) ==
    LET own == createComputedStyle(Some(elem), Null)
        based == IF root /\ baseStyle.present
                 THEN mergeComputedStyle(own, createComputedStyle(Null, baseStyle))
                 ELSE own
    IN  MergeStates(based, states, elem, root)

(* Inputs of the cascade *)

NoOpacity == [defined |-> FALSE]
Opacity(value) == [defined |-> TRUE, value |-> value]
Paint(color, opacity) == [color |-> color, opacity |-> opacity]
Stroke(color, weight) ==
    [color |-> color, opacity |-> NoOpacity, weight |-> [defined |-> TRUE, value |-> weight]]
NoCorner == [defined |-> FALSE]
Uniform(value) == [defined |-> TRUE, uniform |-> TRUE, value |-> value]
Corners(tl, tr, br, bl) ==
    [defined |-> TRUE, uniform |-> FALSE, tl |-> tl, tr |-> tr, br |-> br, bl |-> bl]
NoTextStyle == [defined |-> FALSE]
TextStyle(fontFamily, fontSize) ==
    [defined |-> TRUE, fontFamily |-> fontFamily, fontSize |-> fontSize]
Shadow(color) ==
    [ type |-> "DROP_SHADOW", hasColor |-> TRUE, color |-> color, opacity |-> NoOpacity,
      offset |-> [x |-> 0, y |-> 2], radius |-> 4, spread |-> [defined |-> FALSE] ]
Role(name) == [present |-> TRUE, value |-> name]

ColorHexRed == << "#", "f", "f", "0", "0", "0", "0" >>
ColorHexBlue == << "#", "0", "0", "0", "0", "F", "F" >>

EmptyStyle ==
    [ fills |-> << >>, strokes |-> << >>, effects |-> << >>, elements |-> << >>,
      cornerRadius |-> NoCorner, textStyle |-> NoTextStyle ]
EmptyElementStyle(key) ==
    [ key |-> key, fills |-> << >>, strokes |-> << >>, effects |-> << >>,
      cornerRadius |-> NoCorner, textStyle |-> NoTextStyle ]

ElementId == << "e" >>
ElementRole == << "r" >>

\* the element styled: with or without role, a frame or a text, with or
\* without own fill and corners
ElementSamples ==
    { [ NoElement EXCEPT !.id = ElementId, !.role = role, !.type = type,
                         !.fills = IF painted THEN << Paint(ColorHexBlue, Opacity(0)) >>
                                              ELSE << >>,
                         !.cornerRadius = IF painted THEN Corners(1, 2, 3, 4)
                                                     ELSE NoCorner ] :
        role \in { NoRole, Role(ElementRole) }, type \in { "FRAME", "TEXT" },
        painted \in BOOLEAN }

CascadeStyleSamples ==
    { EmptyStyle,
      [EmptyStyle EXCEPT !.fills = << Paint(ColorHexRed, NoOpacity) >>,
                         !.strokes = << Stroke(ColorFff, 2) >>],
      [EmptyStyle EXCEPT !.fills = << Paint(ColorRed, NoOpacity) >>,
                         !.cornerRadius = Uniform(8)],
      [EmptyStyle EXCEPT !.effects = << Shadow(ColorRgba) >>,
                         !.textStyle = TextStyle(<< "I" >>, 14)],
      [EmptyStyle EXCEPT !.elements =
          << [EmptyElementStyle(ElementRole) EXCEPT
                 !.fills = << Paint(ColorFff, NoOpacity) >>,
                 !.textStyle = TextStyle(<< "M" >>, 12)] >>],
      [EmptyStyle EXCEPT !.elements =
          << [EmptyElementStyle(ElementId) EXCEPT
                 !.fills = << Paint(ColorRgba, NoOpacity) >>],
             [EmptyElementStyle(ElementRole) EXCEPT
                 !.fills = << Paint(ColorRed, NoOpacity) >>,
                 !.strokes = << Stroke(ColorHexRed, 1) >>] >>] }

BaseStyleSamples ==
    { Null,
      Some([EmptyStyle EXCEPT !.fills = << Paint(ColorFff, Opacity(1)) >>]),
      Some([EmptyStyle EXCEPT !.cornerRadius = Uniform(0),
                              !.strokes = << Stroke(ColorRed, 3) >>]) }

\* a ComponentSpec with structure and base style
ForgeSpec(structure, baseStyle, variantGroups, states, propDefinitions, bindings) ==
    [ name |-> << "B" >>, structure |-> structure, baseStyle |-> baseStyle,
      variantGroups |-> variantGroups, states |-> states,
      propDefinitions |-> propDefinitions, bindings |-> bindings ]

IdleUtils == IdleGenerator /\ IdleMatcher /\ IdleValidator /\ IdleFixer

InitCascade ==
    /\ \E elem \in ElementSamples, root \in BOOLEAN, base \in BaseStyleSamples :
         \E k \in 0..MaxStates : \E styles \in [1..k -> CascadeStyleSamples] :
            /\ element = elem
            /\ isRoot = root
            /\ activeStates = [ i \in 1..k |-> State(<< "x" >> \o NumberToString(i), styles[i]) ]
            /\ spec = ForgeSpec(elem, base, << >>, activeStates, EmptyProps, << >>)
    /\ pc = "ready"
    /\ activeVariants = EmptyCombination
    /\ computed = << >> /\ recomputed = << >>
    /\ previewTargets = << >> /\ previewProps = NoPropValues
    /\ IdleUtils /\ IdleBuilder /\ IdleHost /\ IdleEditor

ApplyPreviewStyles ==
    /\ pc = "ready"
    /\ computed' = applyPreviewStyles(element, activeStates, isRoot, spec.baseStyle)
    /\ pc' = "styled"
    /\ UNCHANGED << spec, utilVars, activeVariants, element, isRoot, activeStates,
                    recomputed, previewTargets, previewProps, builderVars, hostVars, editorVars >>

ApplyPreviewStylesAgain ==
    /\ pc = "styled"
    /\ recomputed' = applyPreviewStyles(element, activeStates, isRoot, spec.baseStyle)
    /\ pc' = "restyled"
    /\ UNCHANGED << spec, utilVars, activeVariants, element, isRoot, activeStates,
                    computed, previewTargets, previewProps, builderVars, hostVars, editorVars >>

NextCascade == ApplyPreviewStyles \/ ApplyPreviewStylesAgain

SpecCascade == InitCascade /\ [][NextCascade]_vars

(* C11: the cascade *)

ComputedFields ==
    { "fill", "textColor", "borderColor", "borderWidth", "radius", "shadow", "textStyle" }

\* the ComputedStyles one active state hands to the merge, in merge order
StagesOfState(stateSpec, elem, root) ==
    (IF root THEN << createComputedStyle(Null, Some(stateSpec.style)) >> ELSE << >>)
    \o (LET elementStyle == getElementStyleForState(stateSpec, elem)
        IN  IF elementStyle.present
            THEN << createComputedStyle(Null, elementStyle) >> ELSE << >>)

\* every stage of one call: own fields, base style (root), then the states
Stages(elem, states, root, baseStyle) ==
    << createComputedStyle(Some(elem), Null) >>
    \o (IF root /\ baseStyle.present
        THEN << createComputedStyle(Null, baseStyle) >> ELSE << >>)
    \o Flatten([ i \in 1..Len(states) |-> StagesOfState(states[i], elem, root) ])

Defining(stages, field) == { i \in 1..Len(stages) : field \in DOMAIN stages[i] }
Latest(S) == CHOOSE i \in S : \A j \in S : j <= i
SetBy(stateSpec, elem, root, field) ==
    Defining(StagesOfState(stateSpec, elem, root), field) # { }
ValueSetBy(stateSpec, elem, root, field) ==
    LET stages == StagesOfState(stateSpec, elem, root)
    IN  stages[Latest(Defining(stages, field))][field]
Swapped(states, i, j) ==
    [ k \in 1..Len(states) |->
        IF k = i THEN states[j] ELSE IF k = j THEN states[i] ELSE states[k] ]

C11_LatestStageWins ==
    pc \in { "styled", "restyled" } =>
        LET stages == Stages(element, activeStates, isRoot, spec.baseStyle)
        IN  /\ DOMAIN computed \subseteq ComputedFields
            /\ \A field \in ComputedFields :
                 IF Defining(stages, field) = { }
                 THEN field \notin DOMAIN computed
                 ELSE /\ field \in DOMAIN computed
                      /\ computed[field] = stages[Latest(Defining(stages, field))][field]

C11_SameTwice == pc = "restyled" => recomputed = computed

C11_SwapSwapsWinner ==
    pc \in { "styled", "restyled" } =>
        \A i, j \in 1..Len(activeStates) : \A field \in ComputedFields :
            ( /\ i < j
              /\ SetBy(activeStates[i], element, isRoot, field)
              /\ SetBy(activeStates[j], element, isRoot, field)
              /\ \A k \in (j + 1)..Len(activeStates) :
                    ~SetBy(activeStates[k], element, isRoot, field) )
            => /\ computed[field] = ValueSetBy(activeStates[j], element, isRoot, field)
               /\ applyPreviewStyles(element, Swapped(activeStates, i, j), isRoot,
                                     spec.baseStyle)[field]
                    = ValueSetBy(activeStates[i], element, isRoot, field)

\* C11: each computed field of the preview's style takes the value of the
\* latest stage that defines it (own fields, then the base style for the
\* root, then the active states in order), a stage that leaves a field unset
\* clears nothing, a second resolution gives the same style, and exchanging
\* two active states that both set a field exchanges which of them wins.
C11_Cascade == C11_LatestStageWins /\ C11_SameTwice /\ C11_SwapSwapsWinner

\* the root with own corners, a base fill and two states that set different
\* fills: the second state's fill wins and the own radius survives
C11_Witness ==
    /\ pc = "restyled" /\ isRoot
    /\ spec.baseStyle.present /\ spec.baseStyle.value.fills # << >>
    /\ Len(activeStates) = 2
    /\ SetBy(activeStates[1], element, isRoot, "fill")
    /\ SetBy(activeStates[2], element, isRoot, "fill")
    /\ ValueSetBy(activeStates[1], element, isRoot, "fill")
         # ValueSetBy(activeStates[2], element, isRoot, "fill")
    /\ computed["fill"] = ValueSetBy(activeStates[2], element, isRoot, "fill")
    /\ ~SetBy(activeStates[1], element, isRoot, "radius")
    /\ ~SetBy(activeStates[2], element, isRoot, "radius")
    /\ "radius" \in DOMAIN computed
    /\ computed["radius"] = << "1", "p", "x", " ", "2", "p", "x", " ", "3", "p", "x",
                               " ", "4", "p", "x" >>
    /\ computed["fill"] = << "r", "g", "b", "a", "(", "2", "5", "5", ",", " ", "0",
                             ",", " ", "0", ",", " ", "1", ")" >>

(* C12: which entry of a state's elements map an element takes *)

\* the entry under the element's id when there is one, otherwise the entry
\* under its role
EntryByIdThenRole(stateSpec, elem) ==
    LET byId == ElementStyleAt(stateSpec.style.elements, elem.id)
    IN  IF byId.present \/ ~elem.role.present THEN byId
        ELSE ElementStyleAt(stateSpec.style.elements, elem.role.value)

\* C12: for each active state the element-level override merged into the
\* element's style is the entry keyed by the element's id when the state has
\* one, and the entry keyed by its role only otherwise.
C12_IdEntryUsed ==
    pc \in { "styled", "restyled" } =>
        /\ \A i \in 1..Len(activeStates) :
             getElementStyleForState(activeStates[i], element)
                = EntryByIdThenRole(activeStates[i], element)
        /\ (~isRoot /\ Len(activeStates) = 1) =>
             LET own == createComputedStyle(Some(element), Null)
                 entry == EntryByIdThenRole(activeStates[1], element)
             IN  computed = IF entry.present
                            THEN mergeComputedStyle(own, createComputedStyle(Null, entry))
                            ELSE own

----------------------------------------------------------------------------
(* The states active for one combination: ui.ts getActiveStates and code.ts
   resolveStatesForCombination *)

\* states per specification (active-state runs)
MaxDeclaredStates == 3

\* a StateSpec with its selector
StateFor(name, appliesTo, style) ==
    [name |-> name, appliesTo |-> appliesTo, style |-> style]

\* slip: the matching states collected with unshift, last declared first
RECURSIVE FilterMatchingReversed(_, _)
FilterMatchingReversed(states, combo) ==
    IF Len(states) = 0 THEN << >>
    ELSE FilterMatchingReversed(Tail(states), combo)
            \o (IF variantMatchesSelector(combo, Head(states).appliesTo)
                THEN << Head(states) >> ELSE << >>)

\* states.filter((state) => variantMatchesSelector(combo, state.appliesTo))
RECURSIVE FilterMatching(_, _)
FilterMatching(states, combo) ==
    IF Len(states) = 0 THEN << >>
    ELSE (IF variantMatchesSelector(combo, Head(states).appliesTo)
          THEN << Head(states) >> ELSE << >>)
            \o FilterMatching(Tail(states), combo)

getActiveStates(uiSpec, uiActiveVariants) == FilterMatching(uiSpec.states, uiActiveVariants)

resolveStatesForCombination(states, combo) == FilterMatching(states, combo)

(* Inputs *)

TwoGroups ==
    GroupsOf(<< << "s" >>, << "t" >> >>,
             << << << "a" >>, << "b" >> >>, << << "a" >>, << "b" >> >> >>)

SelectorSamples ==
    { NoSelector,
      SomeSelector(<< "s" >> :> << "a" >>),
      SomeSelector(<< "s" >> :> << "b" >>),
      SomeSelector(<< "t" >> :> << "b" >>),
      SomeSelector((<< "s" >> :> << "a" >>) @@ (<< "t" >> :> << "b" >>)) }

\* names that fall in the declared order: z, y, x, w
DeclaredName(i) == << << "z" >>, << "y" >>, << "x" >>, << "w" >> >>[i]

InitActive ==
    /\ \E k \in 0..MaxDeclaredStates : \E selectors \in [1..k -> SelectorSamples] :
         spec = ForgeSpec(NoElement, Null, TwoGroups,
                          [ i \in 1..k |-> StateFor(DeclaredName(i), selectors[i], EmptyStyle) ],
                          EmptyProps, << >>)
    /\ activeVariants \in Range(generateVariantCombinations(TwoGroups))
    /\ pc = "ready"
    /\ element = NoElement /\ isRoot = FALSE /\ activeStates = << >>
    /\ computed = << >> /\ recomputed = << >>
    /\ previewTargets = << >> /\ previewProps = NoPropValues
    /\ IdleUtils /\ IdleBuilder /\ IdleHost /\ IdleEditor

\* the preview selects the states of the combination on display
GetActiveStates ==
    /\ pc = "ready"
    /\ activeStates' = getActiveStates(spec, activeVariants)
    /\ pc' = "previewed"
    /\ UNCHANGED << spec, utilVars, activeVariants, element, isRoot, computed,
                    recomputed, previewTargets, previewProps, builderVars, hostVars, editorVars >>

\* the builder selects the states of one generated combination
ResolveStatesForCombination ==
    /\ pc = "ready"
    /\ \E combo \in Range(generateVariantCombinations(spec.variantGroups)) :
         /\ combination' = combo
         /\ activeStates' = resolveStatesForCombination(spec.states, combo)
    /\ pc' = "resolved"
    /\ UNCHANGED << spec, combinations, again, selector, matched, validation, fixes,
                    fixed, sameObject, revalidation, activeVariants, element, isRoot,
                    computed, recomputed, previewTargets, previewProps, builderVars,
                    hostVars, editorVars >>

NextActive == GetActiveStates \/ ResolveStatesForCombination

SpecActive == InitActive /\ [][NextActive]_vars

(* C13 *)

\* the selector is omitted, or the combination has each of its pairs
Agrees(combo, sel) ==
    ~sel.present
    \/ \A key \in DOMAIN sel.map : key \in DOMAIN combo /\ combo[key] = sel.map[key]

MatchingPositions(states, combo) ==
    { i \in 1..Len(states) : Agrees(combo, states[i].appliesTo) }

\* the k-th smallest member of a set of positions
Nth(positions, k) ==
    CHOOSE i \in positions : Cardinality({ j \in positions : j <= i }) = k

InDeclaredOrder(result, states, combo) ==
    LET positions == MatchingPositions(states, combo)
    IN  /\ Len(result) = Cardinality(positions)
        /\ \A k \in 1..Len(result) : result[k] = states[Nth(positions, k)]

\* C13: for the combination previewed and for each combination built, the
\* active states are exactly the declared states whose selector agrees with
\* the combination (a selector that names only some groups agrees with every
\* combination that has its pairs), in the order of their declaration.
C13_ActiveStates ==
    /\ pc = "previewed" => InDeclaredOrder(activeStates, spec.states, activeVariants)
    /\ pc = "resolved" => InDeclaredOrder(activeStates, spec.states, combination)

\* three states, the first with a selector on one group only, the second not
\* matching: the builder keeps the first and the third, z before x
C13_Witness ==
    /\ pc = "resolved"
    /\ Len(spec.states) = 3
    /\ spec.states[1].appliesTo = SomeSelector(<< "s" >> :> << "a" >>)
    /\ combination = (<< "s" >> :> << "a" >>) @@ (<< "t" >> :> << "a" >>)
    /\ spec.states[2].appliesTo = SomeSelector(<< "t" >> :> << "b" >>)
    /\ activeStates = << spec.states[1], spec.states[3] >>
    /\ activeStates[1].name = << "z" >> /\ activeStates[2].name = << "x" >>

----------------------------------------------------------------------------
(* Bindings: the node index of code.ts and the lookup of the preview *)

\* bindings per specification (binding-target runs)
MaxTargetBindings == 2

NodeRef(nodeId) == [kind |-> "NODE", nodeId |-> nodeId]
RoleRef(role) == [kind |-> "ROLE", role |-> role]
BindingTo(propName, type, target) ==
    [propName |-> propName, type |-> type, target |-> target]

\* Map.prototype.get
MapGet(map, key) == IF key \in DOMAIN map THEN Some(map[key]) ELSE Null

\* the node built from an element is named by the element's id
NodeOf(elemSpec) == elemSpec.id

\* context.nodeByElementId.set(id, node), and the node pushed on the list of
\* its role when the element has one
Register(ctx, elemSpec) ==
    [ nodeByElementId |-> (elemSpec.id :> NodeOf(elemSpec)) @@ ctx.nodeByElementId,
      nodesByRole |->
          IF elemSpec.role.present
          THEN LET collection == MapGet(ctx.nodesByRole, elemSpec.role.value)
               IN  (elemSpec.role.value :>
                       Append(IF collection.present THEN collection.value ELSE << >>,
                              NodeOf(elemSpec)))
                   @@ ctx.nodesByRole
          ELSE ctx.nodesByRole ]

\* whether the node created for an element type owns appendChild
HasAppendChild(type) == type \notin { "RECTANGLE", "ELLIPSE", "TEXT" }

RECURSIVE buildNodeFromSpec(_, _)
RECURSIVE BuildEach(_, _)

\* the children built one after the other, each with the context left by
\* the one before
BuildEach(children, ctx) ==
    IF Len(children) = 0 THEN ctx
    ELSE BuildEach(Tail(children), buildNodeFromSpec(Head(children), ctx))

\* buildNodeFromSpec: the context after the call; the children are built
\* first, the node itself is entered in the index after them
buildNodeFromSpec(elemSpec, ctx) ==
    Register(IF HasAppendChild(elemSpec.type) THEN BuildEach(elemSpec.children, ctx)
                                              ELSE ctx,
             elemSpec)

\* createComponentFromSpec, per combination: a new context, the component
\* entered for the root, then buildChildren of the root
BuildTree(structure) ==
    BuildEach(structure.children, Register(NoContext, structure))

resolveTargetNode(binding, ctx) ==
    IF binding.target.kind = "NODE"
    THEN MapGet(ctx.nodeByElementId, binding.target.nodeId)
    ELSE LET nodes == MapGet(ctx.nodesByRole, binding.target.role)
         IN  IF nodes.present THEN Some(nodes.value[1]) ELSE Null

\* the key of componentPropertyReferences a binding type writes
ReferenceKey(type) ==
    CASE type = "BOOLEAN" -> "visibility"
      [] type = "TEXT" -> "characters"
      [] type = "INSTANCE_SWAP" -> "mainComponent"

WarnNotFound(binding) ==
    << "Binding target not found for property ", binding.propName >>

\* one pass of the forEach callback over the references and the warn log
BindOne(binding, ctx, wiring) ==
    LET target == resolveTargetNode(binding, ctx)
    IN  IF ~target.present
        THEN [wiring EXCEPT !.warned = Append(@, WarnNotFound(binding))]
        ELSE LET before == MapGet(wiring.references, target.value)
                 own == IF before.present THEN before.value ELSE << >>
             IN  [wiring EXCEPT !.references =
                     (target.value :> ((ReferenceKey(binding.type) :> binding.propName) @@ own))
                     @@ @]

\* slip: the loop left at the first binding without target
RECURSIVE BindUntilMissing(_, _, _)
BindUntilMissing(bindings, ctx, wiring) ==
    IF Len(bindings) = 0 THEN wiring
    ELSE IF ~resolveTargetNode(Head(bindings), ctx).present
         THEN BindOne(Head(bindings), ctx, wiring)
         ELSE BindUntilMissing(Tail(bindings), ctx, BindOne(Head(bindings), ctx, wiring))

\* bindings.forEach(...)
RECURSIVE BindEach(_, _, _)
BindEach(bindings, ctx, wiring) ==
    IF Len(bindings) = 0 THEN wiring
    ELSE BindEach(Tail(bindings), ctx, BindOne(Head(bindings), ctx, wiring))

applyBindings(ctx, bindings) ==
    BindEach(bindings, ctx, [references |-> << >>, warned |-> << >>])

\* ui.ts getBindingForElement: the position of the first binding of the type
\* whose target is the element's id or the element's role
RECURSIVE FindBindingFrom(_, _, _, _)
FindBindingFrom(bindings, elemSpec, type, i) ==
    IF i > Len(bindings) THEN Null
    ELSE IF /\ bindings[i].type = type
            /\ IF bindings[i].target.kind = "NODE"
               THEN bindings[i].target.nodeId = elemSpec.id
               ELSE elemSpec.role.present /\ bindings[i].target.role = elemSpec.role.value
         THEN Some(i)
         ELSE FindBindingFrom(bindings, elemSpec, type, i + 1)

getBindingForElement(bindings, elemSpec, type) == FindBindingFrom(bindings, elemSpec, type, 1)

\* the bindings one preview node takes: the text binding when it is a text,
\* the boolean binding for its display, the instance-swap binding
BindingsTaken(bindings, elemSpec) ==
    { i \in 1..Len(bindings) :
        /\ bindings[i].type = "TEXT" => elemSpec.type = "TEXT"
        /\ getBindingForElement(bindings, elemSpec, bindings[i].type) = Some(i) }

\* buildPreviewNode: the nodes in document order, each with the bindings it takes
RECURSIVE buildPreviewNode(_, _)
buildPreviewNode(elemSpec, bindings) ==
    << [id |-> elemSpec.id, taken |-> BindingsTaken(bindings, elemSpec)] >>
    \o Flatten([ i \in 1..Len(elemSpec.children) |->
                   buildPreviewNode(elemSpec.children[i], bindings) ])

(* Inputs *)

Elem(id, role, type, children) ==
    [NoElement EXCEPT !.id = id, !.role = role, !.type = type, !.children = children]

RoleSamples == { NoRole, Role(ElementRole) }

\* a root with two children, and a root with a child that has a child
TreeSamples ==
    { Elem(<< "c" >>, r0, "FRAME",
           << Elem(<< "p" >>, r1, "FRAME", << >>), Elem(<< "q" >>, r2, "TEXT", << >>) >>) :
        r0 \in RoleSamples, r1 \in RoleSamples, r2 \in RoleSamples }
    \cup
    { Elem(<< "c" >>, r0, "FRAME",
           << Elem(<< "p" >>, r1, type, << Elem(<< "q" >>, r2, "FRAME", << >>) >>) >>) :
        r0 \in RoleSamples, r1 \in RoleSamples, r2 \in RoleSamples,
        type \in { "FRAME", "TEXT" } }

TargetSamples ==
    { NodeRef(<< "q" >>), NodeRef(<< "m" >>), RoleRef(ElementRole), RoleRef(<< "m" >>) }

PropName(i) == << "p" >> \o NumberToString(i)

InitBind ==
    /\ \E tree \in TreeSamples :
         \E k \in 0..MaxTargetBindings :
            \E types \in [1..k -> { "BOOLEAN", "TEXT" }], targets \in [1..k -> TargetSamples] :
               spec = ForgeSpec(tree, Null, << >>, << >>, EmptyProps,
                                [ i \in 1..k |-> BindingTo(PropName(i), types[i], targets[i]) ])
    /\ pc = "ready"
    /\ IdleUtils /\ IdlePreview /\ IdleBuilder /\ IdleHost /\ IdleEditor

\* the preview renders the tree
RenderPreview ==
    /\ pc = "ready"
    /\ previewTargets' = buildPreviewNode(spec.structure, spec.bindings)
    /\ pc' = "rendered"
    /\ UNCHANGED << spec, utilVars, activeVariants, element, isRoot, activeStates,
                    computed, recomputed, previewProps, builderVars, hostVars, editorVars >>

\* the builder builds the tree of one component and fills the node index
BuildNodes ==
    /\ pc = "ready"
    /\ context' = BuildTree(spec.structure)
    /\ pc' = "built"
    /\ UNCHANGED << spec, utilVars, previewVars, references, warned, propValues,
                    components, componentSet, hostVars, editorVars >>

\* the builder wires the bindings of the component
ApplyBindings ==
    /\ pc = "built"
    /\ LET wiring == applyBindings(context, spec.bindings)
       IN  references' = wiring.references /\ warned' = wiring.warned
    /\ pc' = "bound"
    /\ UNCHANGED << spec, utilVars, previewVars, context, propValues, components,
                    componentSet, hostVars, editorVars >>

NextBind == RenderPreview \/ BuildNodes \/ ApplyBindings

SpecBind == InitBind /\ [][NextBind]_vars

(* C14 *)

\* parent before children, children in declaration order
RECURSIVE PreOrder(_)
PreOrder(elemSpec) ==
    << elemSpec >>
    \o Flatten([ i \in 1..Len(elemSpec.children) |-> PreOrder(elemSpec.children[i]) ])

\* the ids of the elements that carry the role, in pre-order
Carriers(structure, role) ==
    LET all == PreOrder(structure)
    IN  Flatten([ i \in 1..Len(all) |->
                    IF all[i].role = Role(role) THEN << all[i].id >> ELSE << >> ])

RoleBindings == { i \in 1..Len(spec.bindings) : spec.bindings[i].target.kind = "ROLE" }

\* the ids of the preview nodes that take binding i
TakenBy(i) ==
    { previewTargets[n].id : n \in { m \in 1..Len(previewTargets) : i \in previewTargets[m].taken } }

OnlyOfItsType(i) ==
    \A j \in 1..Len(spec.bindings) : spec.bindings[j].type = spec.bindings[i].type => j = i

C14_BuilderFirstInPreOrder ==
    pc \in { "built", "bound" } =>
        \A i \in RoleBindings :
            LET carriers == Carriers(spec.structure, spec.bindings[i].target.role)
            IN  carriers # << >> =>
                    resolveTargetNode(spec.bindings[i], context) = Some(carriers[1])

C14_PreviewFirstInPreOrder ==
    pc = "rendered" =>
        \A i \in RoleBindings :
            LET carriers == Carriers(spec.structure, spec.bindings[i].target.role)
            IN  (carriers # << >> /\ spec.bindings[i].type = "BOOLEAN" /\ OnlyOfItsType(i))
                    => TakenBy(i) = { carriers[1] }

\* C14: a binding by role drives the first element that carries the role in
\* pre-order (parent before children, children as declared) and no other
\* element, in the node index of the builder and in the preview.
C14_FirstInPreOrder == C14_BuilderFirstInPreOrder /\ C14_PreviewFirstInPreOrder

(* C15 *)

Resolves(i) == resolveTargetNode(spec.bindings[i], context).present

\* no later binding writes the same reference of the same node
LastWriter(i) ==
    \A j \in (i + 1)..Len(spec.bindings) :
        ~( /\ Resolves(j)
           /\ resolveTargetNode(spec.bindings[j], context)
                = resolveTargetNode(spec.bindings[i], context)
           /\ spec.bindings[j].type = spec.bindings[i].type )

Unresolved ==
    Flatten([ i \in 1..Len(spec.bindings) |-> IF Resolves(i) THEN << >> ELSE << i >> ])

\* C15: wiring the bindings of a built component ends for every list of
\* bindings; each binding without target is reported once, in order, and
\* leaves no reference; each binding with a target is wired to that target
\* whatever bindings around it have none.
C15_UnresolvedSkipped ==
    pc = "bound" =>
        /\ warned = [ n \in 1..Len(Unresolved) |-> WarnNotFound(spec.bindings[Unresolved[n]]) ]
        /\ \A i \in 1..Len(spec.bindings) :
             (Resolves(i) /\ LastWriter(i)) =>
                LET node == resolveTargetNode(spec.bindings[i], context).value
                IN  /\ node \in DOMAIN references
                    /\ ReferenceKey(spec.bindings[i].type) \in DOMAIN references[node]
                    /\ references[node][ReferenceKey(spec.bindings[i].type)]
                         = spec.bindings[i].propName
        /\ \A node \in DOMAIN references : \A key \in DOMAIN references[node] :
             \E i \in 1..Len(spec.bindings) :
                /\ resolveTargetNode(spec.bindings[i], context) = Some(node)
                /\ ReferenceKey(spec.bindings[i].type) = key
                /\ references[node][key] = spec.bindings[i].propName

\* a binding without target followed by one with a target: one warning, and
\* the second binding wired
C15_Witness ==
    /\ pc = "bound"
    /\ Len(spec.bindings) = 2
    /\ ~Resolves(1) /\ Resolves(2)
    /\ warned = << WarnNotFound(spec.bindings[1]) >>
    /\ references = (<< "q" >> :> ("visibility" :> PropName(2)))

----------------------------------------------------------------------------
(* Property values of one combination: resolvePropValues of code.ts and of
   ui.ts. A catalog is the list of its keys (Object.keys) and, under defs, the
   definition of each key. *)

NoDefault == [defined |-> FALSE]
Default(value) == [defined |-> TRUE, value |-> value]

\* code.ts extractDefaultBooleanValues: def.defaultValue ?? false
extractDefaultBooleanValues(defs) ==
    [ key \in Range(defs.boolean) |->
        IF defs.defs.boolean[key].defined THEN defs.defs.boolean[key].value ELSE FALSE ]

\* code.ts extractDefaultTextValues: def.defaultValue ?? ''
extractDefaultTextValues(defs) ==
    [ key \in Range(defs.text) |->
        IF defs.defs.text[key].defined THEN defs.defs.text[key].value ELSE << >> ]

\* code.ts extractDefaultSwapValues: only a truthy defaultComponentKey is taken
extractDefaultSwapValues(defs) ==
    [ key \in { k \in Range(defs.swap) :
                  defs.defs.swap[k].defined /\ defs.defs.swap[k].value # << >> } |->
        defs.defs.swap[key].value ]

\* slip: Object.assign(values, result), the earlier value kept
addValuesKeepingEarlier(result, values) ==
    IF ~values.present THEN result
    ELSE [ boolean |-> result.boolean @@ values.value.boolean,
           text |-> result.text @@ values.value.text,
           swap |-> result.swap @@ values.value.swap ]

\* code.ts addValues: Object.assign per catalog; nothing for undefined values
addValues(result, values) ==
    IF ~values.present THEN result
    ELSE [ boolean |-> values.value.boolean @@ result.boolean,
           text |-> values.value.text @@ result.text,
           swap |-> values.value.swap @@ result.swap ]

RECURSIVE AddValuesOfStates(_, _)
AddValuesOfStates(result, states) ==
    IF Len(states) = 0 THEN result
    ELSE AddValuesOfStates(addValues(result, Head(states).propValues), Tail(states))

\* code.ts resolvePropValues
resolvePropValues(componentSpec, states) ==
    AddValuesOfStates(
        addValues(NoPropValues,
                  Some([ boolean |-> extractDefaultBooleanValues(componentSpec.propDefinitions),
                         text |-> extractDefaultTextValues(componentSpec.propDefinitions),
                         swap |-> extractDefaultSwapValues(componentSpec.propDefinitions) ])),
        states)

\* ui.ts extractDefaultBooleanValues, extractDefaultTextValues and
\* extractDefaultSwapValues
uiExtractDefaultValues(defs) ==
    [ boolean |-> [ key \in Range(defs.boolean) |->
                      IF defs.defs.boolean[key].defined
                      THEN defs.defs.boolean[key].value ELSE FALSE ],
      text |-> [ key \in Range(defs.text) |->
                   IF defs.defs.text[key].defined
                   THEN defs.defs.text[key].value ELSE << >> ],
      swap |-> [ key \in { k \in Range(defs.swap) :
                             defs.defs.swap[k].defined /\ defs.defs.swap[k].value # << >> } |->
                   defs.defs.swap[key].value ] ]

\* ui.ts applyValues
applyValues(result, values) ==
    IF ~values.present THEN result
    ELSE [ boolean |-> values.value.boolean @@ result.boolean,
           text |-> values.value.text @@ result.text,
           swap |-> values.value.swap @@ result.swap ]

RECURSIVE ApplyValuesOfStates(_, _)
ApplyValuesOfStates(result, states) ==
    IF Len(states) = 0 THEN result
    ELSE ApplyValuesOfStates(applyValues(result, Head(states).propValues), Tail(states))

\* ui.ts resolvePropValues
uiResolvePropValues(componentSpec, states) ==
    ApplyValuesOfStates(
        applyValues(NoPropValues, Some(uiExtractDefaultValues(componentSpec.propDefinitions))),
        states)

(* Inputs *)

BooleanKey == << "b" >>
TextKey == << "t" >>
SwapKey == << "w" >>
OtherKey == << "o" >>

\* a catalog of at most one key
Catalog(key, defaults) ==
    { [keys |-> << >>, defs |-> << >>] }
    \cup { [keys |-> << key >>, defs |-> (key :> d)] : d \in defaults }

CatalogsWithDefaults ==
    { [ boolean |-> b.keys, text |-> t.keys, swap |-> w.keys,
        defs |-> [boolean |-> b.defs, text |-> t.defs, swap |-> w.defs] ] :
        b \in Catalog(BooleanKey, { NoDefault, Default(TRUE) }),
        t \in Catalog(TextKey, { NoDefault, Default(<< "h", "i" >>) }),
        w \in Catalog(SwapKey, { NoDefault, Default(<< >>), Default(<< "k" >>) }) }

PropValueSamples ==
    { Null,
      Some([NoPropValues EXCEPT !.boolean = BooleanKey :> FALSE]),
      Some([NoPropValues EXCEPT !.boolean = BooleanKey :> TRUE, !.text = TextKey :> << "y" >>]),
      Some([NoPropValues EXCEPT !.swap = SwapKey :> << "l" >>]),
      Some([NoPropValues EXCEPT !.text = OtherKey :> << >>]) }

StateWith(name, propertyValues) ==
    [name |-> name, appliesTo |-> NoSelector, style |-> EmptyStyle, propValues |-> propertyValues]

InitPropValues ==
    /\ \E catalogs \in CatalogsWithDefaults :
         \E k \in 0..MaxStates : \E values \in [1..k -> PropValueSamples] :
            /\ activeStates = [ i \in 1..k |-> StateWith(DeclaredName(i), values[i]) ]
            /\ spec = ForgeSpec(NoElement, Null, << >>, activeStates, catalogs, << >>)
    /\ pc = "ready"
    /\ activeVariants = EmptyCombination /\ element = NoElement /\ isRoot = FALSE
    /\ computed = << >> /\ recomputed = << >>
    /\ previewTargets = << >> /\ previewProps = NoPropValues
    /\ IdleUtils /\ IdleBuilder /\ IdleHost /\ IdleEditor

\* the builder resolves the values of the combination it builds
ResolvePropValues ==
    /\ pc \in { "ready", "preview" }
    /\ propValues' = resolvePropValues(spec, activeStates)
    /\ pc' = IF pc = "ready" THEN "builder" ELSE "both"
    /\ UNCHANGED << spec, utilVars, previewVars, context, references, warned,
                    components, componentSet, hostVars, editorVars >>

\* the preview resolves the values of the combination on display
UiResolvePropValues ==
    /\ pc \in { "ready", "builder" }
    /\ previewProps' = uiResolvePropValues(spec, activeStates)
    /\ pc' = IF pc = "ready" THEN "preview" ELSE "both"
    /\ UNCHANGED << spec, utilVars, activeVariants, element, isRoot, activeStates,
                    computed, recomputed, previewTargets, builderVars, hostVars, editorVars >>

NextPropValues == ResolvePropValues \/ UiResolvePropValues

SpecPropValues == InitPropValues /\ [][NextPropValues]_vars

(* C16 *)

CatalogNames == { "boolean", "text", "swap" }

\* the active states that supply the key in the catalog
Suppliers(states, catalog, key) ==
    { i \in 1..Len(states) :
        states[i].propValues.present /\ key \in DOMAIN states[i].propValues.value[catalog] }

\* the default the catalog declares for the key, if it gives one
DeclaredDefault(defs, catalog, key) ==
    IF key \notin Range(defs[catalog]) THEN Null
    ELSE LET def == defs.defs[catalog][key]
         IN  CASE catalog = "boolean" -> Some(IF def.defined THEN def.value ELSE FALSE)
               [] catalog = "text" -> Some(IF def.defined THEN def.value ELSE << >>)
               [] catalog = "swap" -> IF def.defined /\ def.value # << >>
                                      THEN Some(def.value) ELSE Null

LastSupplierOrDefault(result, componentSpec, states) ==
    \A catalog \in CatalogNames :
        \A key \in { BooleanKey, TextKey, SwapKey, OtherKey } :
            LET suppliers == Suppliers(states, catalog, key)
                expected ==
                    IF suppliers # { }
                    THEN Some(states[Latest(suppliers)].propValues.value[catalog][key])
                    ELSE DeclaredDefault(componentSpec.propDefinitions, catalog, key)
            IN  MapGet(result[catalog], key) = expected

\* C16: resolvePropValues gives each key the value of the last active state
\* that supplies it, otherwise the default of its catalog (boolean: declared
\* or false, text: declared or empty, instance swap: declared key or none),
\* and the preview's function and the builder's return the same values.
C16_PropValues ==
    /\ pc \in { "builder", "both" } => LastSupplierOrDefault(propValues, spec, activeStates)
    /\ pc \in { "preview", "both" } => LastSupplierOrDefault(previewProps, spec, activeStates)
    /\ pc = "both" => propValues = previewProps

\* two states supply the boolean key with different values, the first one
\* the text key as well, and the swap key has no declared default
C16_Witness ==
    /\ pc = "both"
    /\ Len(activeStates) = 2
    /\ Suppliers(activeStates, "boolean", BooleanKey) = { 1, 2 }
    /\ activeStates[1].propValues.value.boolean[BooleanKey] = TRUE
    /\ spec.propDefinitions.defs.boolean = BooleanKey :> Default(TRUE)
    /\ spec.propDefinitions.defs.text = TextKey :> NoDefault
    /\ spec.propDefinitions.defs.swap = SwapKey :> NoDefault
    /\ propValues = [ boolean |-> BooleanKey :> FALSE, text |-> TextKey :> << "y" >>,
                      swap |-> << >> ]
    /\ previewProps = propValues

----------------------------------------------------------------------------
(* code.ts: the request-create handler and createComponentFromSpec *)

\* the keys of a combination in insertion order: { ...combo, [head.name]: value }
\* keeps the keys of the tail groups and adds the head's name when it is new
RECURSIVE KeyOrder(_)
KeyOrder(groups) ==
    IF Len(groups) = 0 THEN << >>
    ELSE LET tailKeys == KeyOrder(Tail(groups))
         IN  IF Head(groups).name \in Range(tailKeys) THEN tailKeys
             ELSE Append(tailKeys, Head(groups).name)

\* Array.prototype.join
RECURSIVE Join(_, _)
Join(parts, sep) ==
    IF Len(parts) = 0 THEN << >>
    ELSE IF Len(parts) = 1 THEN parts[1]
    ELSE parts[1] \o sep \o Join(Tail(parts), sep)

NameSeparator == << " ", "/", " " >>

\* buildVariantName, with the key order Object.entries walks
buildVariantName(baseName, combo, keyOrder) ==
    LET keys == SelectSeq(keyOrder, LAMBDA key : key \in DOMAIN combo)
        parts == [ i \in 1..Len(keys) |->
                     keys[i] \o << "=" >> \o normalizeVariantValue(combo[keys[i]]) ]
    IN  IF Len(parts) = 0 THEN baseName
        ELSE baseName \o NameSeparator \o Join(parts, << ",", " " >>)

\* whether sep stands in text at position i
StandsAt(text, sep, i) ==
    i + Len(sep) - 1 <= Len(text) /\ SubSeq(text, i, i + Len(sep) - 1) = sep

\* text.split(sep)[0]
RECURSIVE FirstPartFrom(_, _, _)
FirstPartFrom(text, sep, i) ==
    IF i > Len(text) THEN text
    ELSE IF StandsAt(text, sep, i) THEN SubSeq(text, 1, i - 1)
    ELSE FirstPartFrom(text, sep, i + 1)

\* createPropertyDefinitions: one object for the three catalogs, a later
\* catalog replacing an earlier definition under the same name
createPropertyDefinitions(defs) ==
    [ key \in Range(defs.swap) |->
        [ type |-> "INSTANCE_SWAP",
          defaultValue |-> IF defs.defs.swap[key].defined
                           THEN Some(defs.defs.swap[key].value) ELSE Null ] ]
    @@ [ key \in Range(defs.text) |->
        [ type |-> "TEXT",
          defaultValue |-> IF defs.defs.text[key].defined
                           THEN defs.defs.text[key].value ELSE << >> ] ]
    @@ [ key \in Range(defs.boolean) |->
        [ type |-> "BOOLEAN",
          defaultValue |-> IF defs.defs.boolean[key].defined
                           THEN defs.defs.boolean[key].value ELSE FALSE ] ]

\* defineComponentProperties: the copy JSON makes of the definitions (booleans,
\* strings and null, which it leaves as they are) becomes the component's
defineComponentProperties(component, definitions) ==
    [component EXCEPT !.componentPropertyDefinitions = Some(definitions)]

\* applyPropValues: setProperties with the three collections in one object,
\* when it has a key
applyPropValues(component, values) ==
    LET collected == values.swap @@ values.text @@ values.boolean
    IN  IF DOMAIN collected # { }
        THEN [component EXCEPT !.properties = Some(collected)]
        ELSE component

\* applyVariantSelection: setVariantProperties with the normalized values,
\* when the combination has a key
applyVariantSelection(component, combo) ==
    LET sanitized == [ key \in DOMAIN combo |-> normalizeVariantValue(combo[key]) ]
    IN  IF DOMAIN combo # { }
        THEN [component EXCEPT !.variantProperties = Some(sanitized)]
        ELSE component

\* figma.createComponent() with its name
NewComponent(id, name) ==
    [ type |-> "COMPONENT", id |-> id, name |-> name, componentPropertyDefinitions |-> Null,
      references |-> << >>, properties |-> Null, variantProperties |-> Null,
      styles |-> << >> ]

\* the StyleSpecs applyStyle is called with for one component, in call order
StylesApplied(componentSpec, states) ==
    (IF componentSpec.baseStyle.present THEN << componentSpec.baseStyle.value >> ELSE << >>)
    \o [ i \in 1..Len(states) |-> states[i].style ]

\* the body of the loop of createComponentFromSpec for one combination
BuildComponentFor(id, componentSpec, combo, definitions) ==
    LET named == NewComponent(id, buildVariantName(componentSpec.name, combo,
                                                   KeyOrder(componentSpec.variantGroups)))
        ctx == BuildTree(componentSpec.structure)
        states == resolveStatesForCombination(componentSpec.states, combo)
        styled == [named EXCEPT !.styles = StylesApplied(componentSpec, states)]
        defined == defineComponentProperties(styled, definitions)
        wiring == applyBindings(ctx, componentSpec.bindings)
        bound == [defined EXCEPT !.references = wiring.references]
        valued == applyPropValues(bound, resolvePropValues(componentSpec, states))
    IN  [ component |-> applyVariantSelection(valued, combo), warned |-> wiring.warned ]

\* applyVariantGroups: the values of each group, normalized, under its name
RECURSIVE VariantGroupConfig(_)
VariantGroupConfig(groups) ==
    IF Len(groups) = 0 THEN << >>
    ELSE LET last == groups[Len(groups)]
         IN  (last.name :> [ values |-> [ i \in 1..Len(last.values) |->
                                            normalizeVariantValue(last.values[i]) ] ])
             @@ VariantGroupConfig(SubSeq(groups, 1, Len(groups) - 1))

\* combineAsVariants: the set the host makes of the components
combineAsVariants(id, members, groups) ==
    [ defined |-> TRUE, type |-> "COMPONENT_SET", id |-> id,
      name |-> FirstPartFrom(members[1].name, NameSeparator, 1),
      members |-> [ i \in 1..Len(members) |-> members[i].id ],
      variantGroupProperties |-> VariantGroupConfig(groups),
      componentPropertyDefinitions |-> Null ]

(* Host nodes and messages *)

\* a node name: characters taken from the specification, then a fixed text
\* (the bullet of the fixed names is written as a dot)
HostName(base, suffix) == [base |-> base, suffix |-> suffix]
AssetsName == HostName(<< >>, "Component Forge . Assets")
IconMasterName == HostName(<< >>, "Component Forge . Icon Placeholder")

PageNode(type, name, parent) == [type |-> type, name |-> name, parent |-> parent]

\* a message text: a fixed text of the program, or the characters of an
\* error message the host made
Literal(text) == [literal |-> TRUE, text |-> text]
HostText(chars) == [literal |-> FALSE, text |-> chars]

CreateError(error) == [type |-> "create-error", error |-> error]

\* error?.message ?? 'Unexpected error while creating component.'
ErrorText(error) ==
    IF error.present THEN HostText(error.value)
    ELSE Literal("Unexpected error while creating component.")

\* what a failing host call throws: an error with a message, or without one
HostErrors == { Some(<< "E" >>), Null }

\* slip: a new assets frame on every run
ensureAssetsFrameAnew(nodes) == Append(nodes, PageNode("FRAME", AssetsName, "page"))

\* ensureAssetsFrame: the frame found by name on the page, or created
ensureAssetsFrame(nodes) ==
    IF \E i \in 1..Len(nodes) : nodes[i].type = "FRAME" /\ nodes[i].name = AssetsName
    THEN nodes
    ELSE Append(nodes, PageNode("FRAME", AssetsName, "page"))

\* ensureIconMaster: the component found by name in the assets frame, or created
ensureIconMaster(nodes) ==
    IF \E i \in 1..Len(nodes) :
          /\ nodes[i].type = "COMPONENT" /\ nodes[i].name = IconMasterName
          /\ nodes[i].parent = "assets"
    THEN nodes
    ELSE Append(nodes, PageNode("COMPONENT", IconMasterName, "assets"))

(* Fonts *)

\* spec.ts flattenElements: the elements depth first, a parent before its
\* children, the children in their order
flattenElements(root) == PreOrder(root)

\* an optional field of a JS object: Null when the object has no such key
FieldOf(object, name) == IF name \in DOMAIN object THEN object[name] ELSE Null

FontName(family, style) == [family |-> family, style |-> style]
InterFamily == << "I", "n", "t", "e", "r" >>

\* weightToStyle: no weight, or the weight 0, is Regular
weightToStyle(weight) ==
    IF ~weight.present \/ weight.value = 0 THEN "Regular"
    ELSE IF weight.value >= 900 THEN "Black"
    ELSE IF weight.value >= 800 THEN "Extra Bold"
    ELSE IF weight.value >= 700 THEN "Bold"
    ELSE IF weight.value >= 600 THEN "Semi Bold"
    ELSE IF weight.value >= 500 THEN "Medium"
    ELSE IF weight.value >= 400 THEN "Regular"
    ELSE IF weight.value >= 300 THEN "Light"
    ELSE IF weight.value >= 200 THEN "Extra Light"
    ELSE "Thin"

\* `${family}-${weight ?? 400}`: the key of the Map of collectFonts
FontKey(family, weight) ==
    family \o << "-" >> \o NumberToString(IF weight.present THEN weight.value ELSE 400)

\* registerFont: Map.set keeps the place of a key it has and replaces its value
registerFont(fonts, family, weight) ==
    LET key == FontKey(family, weight)
        entry == [key |-> key, font |-> FontName(family, weightToStyle(weight))]
    IN  IF \E i \in 1..Len(fonts) : fonts[i].key = key
        THEN [ i \in 1..Len(fonts) |-> IF fonts[i].key = key THEN entry ELSE fonts[i] ]
        ELSE Append(fonts, entry)

\* the fonts the text elements register: 'Inter' without weight for each
RECURSIVE RegisterTexts(_, _, _)
RegisterTexts(fonts, elements, i) ==
    IF i > Len(elements) THEN fonts
    ELSE RegisterTexts(IF elements[i].type = "TEXT"
                       THEN registerFont(fonts, InterFamily, Null) ELSE fonts,
                       elements, i + 1)

RegisterTextStyle(fonts, styled) ==
    IF styled.textStyle.defined
    THEN registerFont(fonts, styled.textStyle.fontFamily,
                      FieldOf(styled.textStyle, "fontWeight"))
    ELSE fonts

RECURSIVE RegisterElementStyles(_, _, _)
RegisterElementStyles(fonts, entries, i) ==
    IF i > Len(entries) THEN fonts
    ELSE RegisterElementStyles(RegisterTextStyle(fonts, entries[i]), entries, i + 1)

\* inspectStyle: the text style of the style, then those of its elements
inspectStyle(fonts, style) ==
    RegisterElementStyles(RegisterTextStyle(fonts, style), style.elements, 1)

RECURSIVE InspectStates(_, _, _)
InspectStates(fonts, states, i) ==
    IF i > Len(states) THEN fonts
    ELSE InspectStates(inspectStyle(fonts, states[i].style), states, i + 1)

\* collectFonts: Array.from(fonts.values())
collectFonts(componentSpec) ==
    LET texts == RegisterTexts(<< >>, flattenElements(componentSpec.structure), 1)
        based == IF componentSpec.baseStyle.present
                 THEN inspectStyle(texts, componentSpec.baseStyle.value) ELSE texts
        all == InspectStates(based, componentSpec.states, 1)
    IN  [ i \in 1..Len(all) |-> all[i].font ]

\* slip: the confirmation of the caller not looked at
IgnoresConfirmation(result, message) == FALSE

\* the second test of request-create: the large-count warning without
\* msg.options.confirmLargeVariantCount
NeedsConfirmation(result, message) ==
    HasCode(result.warnings, "variant.count.large")
        /\ ~message.options.confirmLargeVariantCount

\* slip: the combinations taken from the end of the list
CombinationFromEnd(combos, built) == combos[Len(combos) - Len(built)]

\* for (const combination of combinations): the combination of the turn
\* that follows the components built so far
CombinationOfTurn(combos, built) == combos[Len(built) + 1]

(* The handler, one action per stretch between two awaits; the loop of
   createComponentFromSpec is cut into one action per combination *)

\* request-create up to the await of the font loads
RequestCreate ==
    /\ pc = "ready" /\ msg.type = "request-create"
    /\ LET result == validateSpec(msg.spec)
           reported == Append(posted, [type |-> "validation-result", result |-> result])
       IN  /\ validation' = result
           /\ IF ~result.ok
              THEN /\ posted' = Append(reported, CreateError(Literal(
                          "Specification is invalid. Fix errors before creating components.")))
                   /\ pc' = "rejected"
                   /\ UNCHANGED << combinations, page, loads >>
              ELSE IF NeedsConfirmation(result, msg)
              THEN /\ posted' = Append(reported, CreateError(Literal(
                          "Large variant count detected. Confirm generation from the UI.")))
                   /\ pc' = "rejected"
                   /\ UNCHANGED << combinations, page, loads >>
              ELSE /\ posted' = reported
                   /\ combinations' = generateVariantCombinations(msg.spec.variantGroups)
                   /\ page' = ensureAssetsFrame(page)
                   /\ LET textFonts == collectFonts(msg.spec)
                      IN  loads' = [ i \in 1..Len(textFonts) |->
                                       [font |-> textFonts[i], outcome |-> "pending"] ]
                   /\ pc' = "fonts"
    /\ UNCHANGED << spec, again, combination, selector, matched, fixes, fixed,
                    sameObject, revalidation, editorVars, previewVars, builderVars, msg, stored, handled >>

\* every font load has settled; a failed load was caught when it failed
FontsSettled ==
    /\ pc = "fonts"
    /\ \E failing \in { { }, { 1 }, 1..Len(loads) } :
         loads' = [ i \in 1..Len(loads) |->
                      [loads[i] EXCEPT !.outcome = IF i \in failing THEN "failed"
                                                    ELSE "loaded"] ]
    /\ pc' = "building"
    /\ UNCHANGED << spec, utilVars, editorVars, previewVars, builderVars, msg, posted, stored, page,
                    handled >>

\* one turn of the loop: the component of the next combination
BuildComponent ==
    /\ pc = "building" /\ Len(components) < Len(combinations)
    /\ LET withIcons == ensureIconMaster(page)
           built == BuildComponentFor(Len(withIcons) + 1, msg.spec,
                                      CombinationOfTurn(combinations, components),
                                      createPropertyDefinitions(msg.spec.propDefinitions))
       IN  /\ components' = Append(components, built.component)
           /\ warned' = warned \o built.warned
           /\ page' = Append(withIcons,
                             PageNode("COMPONENT", HostName(built.component.name, ""), "page"))
    /\ UNCHANGED << spec, utilVars, editorVars, previewVars, context, references, propValues,
                    componentSet, msg, posted, stored, loads, handled, pc >>

\* a host call of that turn throws, before or after the component was
\* created: the catch of the handler posts the error
BuildFails ==
    /\ pc = "building" /\ Len(components) < Len(combinations)
    /\ \E error \in HostErrors, created \in BOOLEAN :
         /\ posted' = Append(posted, CreateError(ErrorText(error)))
         /\ page' = IF created
                    THEN Append(page, PageNode("COMPONENT", HostName(<< >>, "Component"), "page"))
                    ELSE page
    /\ pc' = "failed"
    /\ UNCHANGED << spec, utilVars, editorVars, previewVars, builderVars, msg, stored, loads, handled >>

\* after the loop: the set when there are several components, the frame
\* around the result, create-success, and the save begun
FinishExpansion ==
    /\ pc = "building" /\ Len(components) = Len(combinations) /\ Len(components) > 0
    /\ \E hoisted \in BOOLEAN :
       LET made == combineAsVariants(Len(page) + 1, components, msg.spec.variantGroups)
           \* the program registers nothing on the set; what the set shows of
           \* the definitions of its members is the host's choice
           set == IF Len(components) > 1
                  THEN IF hoisted
                       THEN [made EXCEPT !.componentPropertyDefinitions =
                                            components[1].componentPropertyDefinitions]
                       ELSE made
                  ELSE NoComponentSet
           grouped == IF set.defined
                      THEN Append(page, PageNode("COMPONENT_SET", HostName(set.name, ""), "page"))
                      ELSE page
       IN  /\ componentSet' = set
           /\ page' = Append(grouped,
                             PageNode("FRAME", HostName(msg.spec.name, " . Generated"), "page"))
           /\ posted' = Append(posted,
                               [ type |-> "create-success", componentId |-> components[1].id,
                                 setId |-> IF set.defined THEN Some(set.id) ELSE Null ])
    /\ pc' = "saving"
    /\ UNCHANGED << spec, utilVars, editorVars, previewVars, context, references, warned, propValues,
                    components, msg, stored, loads, handled >>

\* combineAsVariants or a call after it throws
FinishFails ==
    /\ pc = "building" /\ Len(components) = Len(combinations)
    /\ \E error \in HostErrors, grouped \in BOOLEAN :
         /\ posted' = Append(posted, CreateError(ErrorText(error)))
         /\ page' = IF grouped /\ Len(components) > 1
                    THEN Append(page, PageNode("COMPONENT_SET",
                                               HostName(FirstPartFrom(components[1].name,
                                                                      NameSeparator, 1), ""),
                                               "page"))
                    ELSE IF grouped
                    \* wrapInFrame has made its frame and fails to fill it
                    THEN Append(page, PageNode("FRAME", HostName(msg.spec.name, " . Generated"),
                                               "page"))
                    ELSE page
    /\ pc' = "failed"
    /\ UNCHANGED << spec, utilVars, editorVars, previewVars, builderVars, msg, stored, loads, handled >>

\* saveSpecToStorage has written the specification
SpecSaved ==
    /\ pc = "saving"
    /\ stored' = [defined |-> TRUE, spec |-> msg.spec]
    /\ pc' = "done"
    /\ UNCHANGED << spec, utilVars, editorVars, previewVars, builderVars, msg, posted, page, loads, handled >>

\* figma.clientStorage.setAsync rejects
SaveFails ==
    /\ pc = "saving"
    /\ \E error \in HostErrors : posted' = Append(posted, CreateError(ErrorText(error)))
    /\ pc' = "failed"
    /\ UNCHANGED << spec, utilVars, editorVars, previewVars, builderVars, msg, stored, page, loads, handled >>

(* Inputs *)

CreateStructure ==
    Elem(<< "c" >>, NoRole, "FRAME", << Elem(<< "q" >>, Role(ElementRole), "TEXT", << >>) >>)

CreateGroupSamples ==
    { << >>,
      GroupsOf(<< << "s" >> >>, << << << "a" >>, << "b" >> >> >>),
      TwoGroups,
      GroupsOf(<< << "s" >> >>, << << << "a" >>, << "a" >> >> >>),
      GroupsOf(<< << "s" >> >>, << NumberedValues(LargeVariantCount + 1) >>),
      GroupsOf(<< << "s" >> >>, << << >> >>),
      GroupsOf(<< << "s" >> >>, << << << "a", "," >>, << "a", "=" >> >> >>) }

CreateCatalogSamples ==
    { c \in CatalogsWithDefaults :
        /\ c.text = << >> /\ c.swap = << >>
        /\ c.boolean # << >> => c.defs.boolean[BooleanKey] = Default(TRUE) }

CreateStateSamples ==
    { << >>,
      << [ name |-> << "h" >>, appliesTo |-> SomeSelector(<< "s" >> :> << "a" >>),
           style |-> EmptyStyle,
           propValues |-> Some([NoPropValues EXCEPT !.boolean = BooleanKey :> FALSE]) ] >> }

WeightedTextStyle(fontFamily, fontSize, fontWeight) ==
    [ defined |-> TRUE, fontFamily |-> fontFamily, fontSize |-> fontSize,
      fontWeight |-> Some(fontWeight) ]

\* no base style; Inter at weight 450; another family at weight 700, and at
\* 750 for the element with the role
CreateBaseSamples ==
    { Null,
      Some([EmptyStyle EXCEPT !.textStyle = WeightedTextStyle(InterFamily, 14, 450)]),
      Some([EmptyStyle EXCEPT
              !.textStyle = WeightedTextStyle(<< "A" >>, 14, 700),
              !.elements = << [EmptyElementStyle(ElementRole) EXCEPT
                                 !.textStyle = WeightedTextStyle(<< "A" >>, 14, 750)] >>]) }

CreateBindingSamples ==
    { << >>,
      << BindingTo(BooleanKey, "BOOLEAN", RoleRef(ElementRole)) >>,
      << BindingTo(BooleanKey, "BOOLEAN", NodeRef(<< "m" >>)) >> }

\* the page of a first run, and the page an earlier run left its assets on
PageSamples ==
    { << >>,
      << PageNode("FRAME", AssetsName, "page"),
         PageNode("COMPONENT", IconMasterName, "assets") >> }

InitCreate ==
    /\ \E name \in { << >>, << "B" >> }, groups \in CreateGroupSamples,
          catalogs \in CreateCatalogSamples, states \in CreateStateSamples,
          bindings \in CreateBindingSamples, confirm \in BOOLEAN,
          base \in CreateBaseSamples :
         /\ spec = [ForgeSpec(CreateStructure, base, groups, states, catalogs, bindings)
                       EXCEPT !.name = name]
         /\ msg = [ type |-> "request-create", spec |-> spec,
                    options |-> [confirmLargeVariantCount |-> confirm] ]
    /\ page \in PageSamples
    /\ posted = << >> /\ stored = NoStored /\ loads = << >> /\ handled = 1
    /\ pc = "ready"
    /\ IdleUtils /\ IdlePreview /\ IdleBuilder /\ IdleEditor

NextCreate ==
    \/ RequestCreate \/ FontsSettled \/ BuildComponent \/ BuildFails
    \/ FinishExpansion \/ FinishFails \/ SpecSaved \/ SaveFails

SpecCreate == InitCreate /\ [][NextCreate]_vars

----------------------------------------------------------------------------
(* code.ts: one message after another.  A handler runs to its end before  *)
(* the next message is taken.                                             *)

\* messages the plugin takes in one session
MaxRequests == 2

SaveError(error) == [type |-> "save-error", error |-> error]

\* slip: the validation result not looked at
SaveAlways(result) == TRUE

\* request-save goes on to the write unless !validation.ok
SaveAllowed(result) == result.ok

\* request-save up to the await of the write
RequestSave ==
    /\ pc = "ready" /\ msg.type = "request-save"
    /\ LET result == validateSpec(msg.spec)
           reported == Append(posted, [type |-> "validation-result", result |-> result])
       IN  /\ validation' = result
           /\ IF ~SaveAllowed(result)
              THEN /\ posted' = Append(reported, SaveError(Literal(
                          "Specification is invalid. Resolve validation errors and try again.")))
                   /\ pc' = "rejected"
              ELSE /\ posted' = reported
                   /\ pc' = "storing"
    /\ UNCHANGED << spec, combinations, again, combination, selector, matched, fixes, fixed,
                    sameObject, revalidation, editorVars, previewVars, builderVars, msg, stored, page,
                    loads, handled >>

\* the write of request-save is done: save-success carries the specification
SaveStored ==
    /\ pc = "storing"
    /\ stored' = [defined |-> TRUE, spec |-> msg.spec]
    /\ posted' = Append(posted, [type |-> "save-success", spec |-> msg.spec])
    /\ pc' = "done"
    /\ UNCHANGED << spec, utilVars, editorVars, previewVars, builderVars, msg, page, loads, handled >>

\* the write rejects: request-save has no catch, nothing is posted
StoreFails ==
    /\ pc = "storing"
    /\ pc' = "failed"
    /\ UNCHANGED << spec, utilVars, previewVars, builderVars, hostVars, editorVars >>

SessionSpecs ==
    { [ForgeSpec(Elem(<< "c" >>, NoRole, "FRAME", << >>), Null, groups, << >>,
                 EmptyProps, << >>) EXCEPT !.name = name] :
        name \in { << "B" >>, << >> },
        groups \in { << >>, GroupsOf(<< << "s" >> >>, << << << "a" >>, << "b" >> >> >>) } }

SessionMessages ==
    { [ type |-> kind, spec |-> s, options |-> [confirmLargeVariantCount |-> FALSE] ] :
        kind \in { "request-create", "request-save" }, s \in SessionSpecs }

\* the handler of the last message has ended and the next message is taken:
\* a new call, with its own locals
TakeMessage ==
    /\ pc \in {"rejected", "failed", "done"} /\ handled < MaxRequests
    /\ msg' \in SessionMessages
    /\ spec' = msg'.spec
    /\ handled' = handled + 1
    /\ validation' = NoValidation /\ combinations' = << >>
    /\ components' = << >> /\ componentSet' = NoComponentSet /\ warned' = << >>
    /\ loads' = << >>
    /\ pc' = "ready"
    /\ UNCHANGED << again, combination, selector, matched, fixes, fixed, sameObject,
                    revalidation, editorVars, previewVars, context, references, propValues, posted,
                    stored, page >>

InitSession ==
    /\ msg \in SessionMessages
    /\ spec = msg.spec
    /\ page \in PageSamples
    /\ posted = << >> /\ stored = NoStored /\ loads = << >> /\ handled = 1
    /\ pc = "ready"
    /\ IdleUtils /\ IdlePreview /\ IdleBuilder /\ IdleEditor

NextSession ==
    \/ TakeMessage
    \/ RequestSave
    \/ SaveStored
    \/ StoreFails
    \/ RequestCreate
    \/ FontsSettled
    \/ BuildComponent
    \/ BuildFails
    \/ FinishExpansion
    \/ FinishFails
    \/ SpecSaved
    \/ SaveFails

SpecSession == InitSession /\ [][NextSession]_vars

(* What the handler leaves behind *)

Rejected(result, message) ==
    \/ Len(result.errors) > 0
    \/ /\ HasCode(result.warnings, "variant.count.large")
       /\ ~message.options.confirmLargeVariantCount

CreateErrors == SelectSeq(posted, LAMBDA m : m.type = "create-error")
Successes == SelectSeq(posted, LAMBDA m : m.type = "create-success")

\* C17: a request whose specification has a validation error, or has the
\* large-count warning without the caller's confirmation, is answered with
\* one create-error as soon as it is validated, and the handler stops there:
\* the step leaves the page as it was, builds no component and no set, stores
\* nothing, and no later step follows.
C17_RejectedCreatesNothing ==
    /\ [][ (pc = "ready" /\ pc' # "ready" /\ Rejected(validation', msg))
            => /\ pc' = "rejected"
               /\ page' = page /\ components' = << >> /\ componentSet' = NoComponentSet
               /\ stored' = stored
               /\ posted'[Len(posted')].type = "create-error" ]_vars
    /\ [][ pc = "rejected" => pc' = "rejected" /\ page' = page ]_vars
    /\ [] (pc = "rejected" =>
             /\ components = << >> /\ ~componentSet.defined /\ ~stored.defined
             /\ Len(CreateErrors) = 1 /\ Len(Successes) = 0)

\* a valid specification of more than LargeVariantCount combinations, sent
\* without confirmation, was rejected on a page left empty
C17_Witness ==
    /\ pc = "rejected" /\ validation.ok
    /\ HasCode(validation.warnings, "variant.count.large")
    /\ ~msg.options.confirmLargeVariantCount
    /\ page = << >> /\ components = << >>
    /\ posted[Len(posted)] = CreateError(Literal(
           "Large variant count detected. Confirm generation from the UI."))

\* C18: once a family of several members is finished, the property catalog
\* stands on the family (the component set) and on none of its members.
C18_CatalogOnFamilyOnly ==
    (pc \in {"saving", "done"} /\ componentSet.defined) =>
        /\ componentSet.componentPropertyDefinitions
              = Some(createPropertyDefinitions(msg.spec.propDefinitions))
        /\ \A i \in 1..Len(components) : components[i].componentPropertyDefinitions = Null

NameOfTurn(i) ==
    buildVariantName(msg.spec.name, combinations[i], KeyOrder(msg.spec.variantGroups))

\* C19: the components are built one at a time, the i-th component being the
\* one of the i-th generated combination; the set is made in a step that builds
\* no component, after the component of every combination exists, and only
\* when there is more than one; a finished run of one component has no set.
C19_SequentialThenGrouped ==
    /\ [] (pc \in {"building", "saving", "done"} =>
             /\ combinations = generateVariantCombinations(msg.spec.variantGroups)
             /\ Len(components) <= Len(combinations)
             /\ \A i \in 1..Len(components) :
                   /\ components[i].name = NameOfTurn(i)
                   /\ components[i].variantProperties
                        = IF DOMAIN combinations[i] = { } THEN Null
                          ELSE Some([ key \in DOMAIN combinations[i] |->
                                        normalizeVariantValue(combinations[i][key]) ]))
    /\ [] (componentSet.defined =>
             /\ Len(components) = Len(combinations) /\ Len(components) > 1
             /\ componentSet.members = [ i \in 1..Len(components) |-> components[i].id ])
    /\ [] (pc \in {"saving", "done"} => (componentSet.defined <=> Len(combinations) > 1))
    /\ [][ /\ \/ components' = components
              \/ \E c \in {components'[Len(components')]} : components' = Append(components, c)
           /\ components' # components => componentSet' = componentSet /\ ~componentSet.defined
           /\ componentSet' # componentSet => components' = components ]_vars

\* the four components of two groups of two values stand in the order of the
\* combinations and were made a set
C19_Witness ==
    /\ pc = "saving" /\ Len(components) = 4 /\ componentSet.defined
    /\ Cardinality({ components[i].variantProperties : i \in 1..4 }) = 4
    /\ \A i \in 1..4 : components[i].name = NameOfTurn(i)

Contains(text, part) == \E i \in 1..Len(text) : StandsAt(text, part, i)

\* C20: when the build of a combination fails, no later component is built,
\* no set is made, nothing is stored, and the one create-error posted names
\* the combination that failed.
C20_FailureNamesCombination ==
    (pc = "failed" /\ Len(components) < Len(combinations)) =>
        /\ ~componentSet.defined /\ ~stored.defined
        /\ Len(Successes) = 0 /\ Len(CreateErrors) = 1
        /\ LET error == CreateErrors[1].error
               failing == CombinationOfTurn(combinations, components)
           IN  /\ ~error.literal
               /\ \/ Contains(error.text, NameOfTurn(Len(components) + 1))
                  \/ /\ DOMAIN failing # { }
                     /\ \A key \in DOMAIN failing :
                           Contains(error.text, normalizeVariantValue(failing[key]))

\* the rest of C20 holds: the failure ends the run with one create-error,
\* no set, nothing stored and no create-success
FailureStopsRun ==
    (pc = "failed" /\ Len(components) < Len(combinations)) =>
        /\ ~componentSet.defined /\ ~stored.defined
        /\ Len(CreateErrors) = 1 /\ Len(Successes) = 0

(* Fonts, outcomes and the tags of the members *)

StyleFonts(styled) ==
    IF styled.textStyle.defined
    THEN { FontName(styled.textStyle.fontFamily,
                    weightToStyle(FieldOf(styled.textStyle, "fontWeight"))) }
    ELSE { }

\* the fonts the builder sets on a text node: Inter Regular, the host's font
\* of a new text, and every text style of a style or of an element entry
FontsOfStyle(style) ==
    StyleFonts(style) \cup UNION { StyleFonts(style.elements[i]) : i \in 1..Len(style.elements) }

ReferencedFonts(componentSpec) ==
    (IF \E e \in Range(flattenElements(componentSpec.structure)) : e.type = "TEXT"
     THEN { FontName(InterFamily, "Regular") } ELSE { })
    \cup (IF componentSpec.baseStyle.present
          THEN FontsOfStyle(componentSpec.baseStyle.value) ELSE { })
    \cup UNION { FontsOfStyle(componentSpec.states[i].style) :
                   i \in 1..Len(componentSpec.states) }

Running == pc \in {"fonts", "building", "saving", "done", "failed"}

\* C21: once a request is past its rejections, every font the specification
\* refers to has one load requested, no font has two, and no component
\* exists while a load is pending.
C21_EachFontLoadedOnce ==
    Running =>
        /\ ReferencedFonts(msg.spec) = { loads[i].font : i \in 1..Len(loads) }
        /\ \A i, j \in 1..Len(loads) : loads[i].font = loads[j].font => i = j
        /\ Len(components) > 0 => \A i \in 1..Len(loads) : loads[i].outcome # "pending"

\* the rest of C21 holds: every referred font is requested, and the loads
\* have settled, failed ones included, before the first component
FontsAwaited ==
    Running =>
        /\ ReferencedFonts(msg.spec) = { loads[i].font : i \in 1..Len(loads) }
        /\ pc # "fonts" => \A i \in 1..Len(loads) : loads[i].outcome # "pending"
        /\ pc = "fonts" => components = << >>

Terminal == pc \in {"rejected", "failed", "done"}

\* C23: a request that has ended has reported one outcome: one create-success
\* or one create-error, not both and not neither.
C23_OneOutcome ==
    Terminal => Len(Successes) + Len(CreateErrors) = 1

\* C26: a specification validateSpec accepts has a combination; a request
\* that was not rejected and has finished its loop has built a component.
C26_ValidHasCombination ==
    (pc # "ready" /\ validation.ok) =>
        /\ Len(generateVariantCombinations(msg.spec.variantGroups)) >= 1
        /\ pc \in {"saving", "done"} => Len(components) >= 1

\* C27: the members built for two different combinations of an accepted
\* specification differ in their variant properties and in their names.
C27_DistinctTags ==
    \A i, j \in 1..Len(components) :
        combinations[i] # combinations[j] =>
            /\ components[i].variantProperties # components[j].variantProperties
            /\ components[i].name # components[j].name

(* Sessions *)

\* C22: the stored specification changes only in the step that follows a
\* finished build of the same specification in the same request: every
\* combination has its component and create-success was the last message.
C22_SavedAfterBuild ==
    [][ stored' # stored =>
            /\ stored' = [defined |-> TRUE, spec |-> msg.spec]
            /\ msg.type = "request-create"
            /\ Len(components) >= 1 /\ Len(components) = Len(combinations)
            /\ posted[Len(posted)].type = "create-success" ]_vars

\* C22 as the program has it: the stored specification changes only in the
\* step after a finished build of it (create-success posted), or in the
\* write of a request-save whose specification validateSpec accepted; what
\* is stored is the specification of the message, and it has no error.
C22_SavedAfterBuildOrOnRequest ==
    [][ stored' # stored =>
            /\ stored' = [defined |-> TRUE, spec |-> msg.spec]
            /\ validation = validateSpec(msg.spec) /\ Len(validation.errors) = 0
            /\ \/ /\ msg.type = "request-create"
                  /\ Len(components) >= 1 /\ Len(components) = Len(combinations)
                  /\ posted[Len(posted)].type = "create-success"
               \/ /\ msg.type = "request-save"
                  /\ components = << >>
                  /\ posted'[Len(posted')] = [type |-> "save-success", spec |-> msg.spec] ]_vars

\* a request-save has stored a specification no component was built for
C22_Witness ==
    /\ msg.type = "request-save" /\ pc = "done"
    /\ stored = [defined |-> TRUE, spec |-> msg.spec]
    /\ components = << >> /\ Len(Successes) = 0

AssetsFrames ==
    { i \in 1..Len(page) : page[i].type = "FRAME" /\ page[i].name = AssetsName }

\* C24: the page never holds two assets frames; a request that gets past
\* validation leaves exactly one, the one that was there when there was one.
C24_OneAssetsFrame ==
    /\ [] (Cardinality(AssetsFrames) <= 1)
    /\ [] (Running /\ msg.type = "request-create" => Cardinality(AssetsFrames) = 1)
    /\ [][ \A i \in 1..Len(page) : page'[i] = page[i] ]_vars

\* the second request-create of a session has built its component next to
\* the one assets frame the first one made
C24_Witness ==
    /\ handled = 2 /\ msg.type = "request-create" /\ pc = "done"
    /\ Cardinality(AssetsFrames) = 1 /\ page[1].name = AssetsName
    /\ Cardinality({ i \in 1..Len(page) :
                       page[i].type = "FRAME" /\ page[i].name.suffix = " . Generated" }) = 2

----------------------------------------------------------------------------
(* ui.ts: the editing surface.  The specifications are objects of a store; *)
(* state.spec names one of them, a clone is a new object of the store and  *)
(* a mutator writes to the object it is given.                             *)

\* user events the editing surface handles in one run
MaxEdits == 2

DefaultValue == << "d", "e", "f", "a", "u", "l", "t" >>
StateGroup == << "s", "t", "a", "t", "e" >>
SizeGroup == << "s", "i", "z", "e" >>

Templated(id, componentSpec) == [template |-> id] @@ componentSpec

\* templates.ts buttonSpec and toggleSpec: their names, their variant groups
\* cut to two values, and their first two states
ButtonTemplate ==
    Templated("button",
      [ForgeSpec(Elem(<< "c" >>, NoRole, "FRAME", << >>), Null,
                 GroupsOf(<< StateGroup, SizeGroup >>,
                          << << DefaultValue, << "h", "o", "v", "e", "r" >> >>,
                             << << "s", "m" >>, << "m", "d" >> >> >>),
                 << StateFor(DefaultValue, SomeSelector(StateGroup :> DefaultValue),
                             EmptyStyle),
                    StateFor(<< "h", "o", "v", "e", "r" >>,
                             SomeSelector(StateGroup :> << "h", "o", "v", "e", "r" >>),
                             EmptyStyle) >>,
                 EmptyProps, << >>)
       EXCEPT !.name = << "B", "u", "t", "t", "o", "n" >>])

ToggleTemplate ==
    Templated("toggle",
      [ForgeSpec(Elem(<< "c" >>, NoRole, "FRAME", << >>), Null,
                 GroupsOf(<< StateGroup >>, << << << "o", "f", "f" >>, << "o", "n" >> >> >>),
                 << StateFor(<< "o", "f", "f" >>,
                             SomeSelector(StateGroup :> << "o", "f", "f" >>), EmptyStyle),
                    StateFor(<< "o", "n" >>,
                             SomeSelector(StateGroup :> << "o", "n" >>), EmptyStyle) >>,
                 EmptyProps, << >>)
       EXCEPT !.name = << "T", "o", "g", "g", "l", "e" >>])

\* where the template definitions stand in the store
TemplateRef(id) == IF id = "button" THEN 1 ELSE 2
TemplateIds == { "button", "toggle" }

\* createSpecFromTemplate: a clone of the template definition
createSpecFromTemplate(store, id) == deepCloneSpec(store, TemplateRef(id))

\* computeDefaultVariants: the first value of every group ('default' for a
\* group without values), then the selector of the first state on top
RECURSIVE DefaultsOfGroups(_, _)
DefaultsOfGroups(groups, variants) ==
    IF Len(groups) = 0 THEN variants
    ELSE LET group == Head(groups)
             first == IF Len(group.values) > 0 THEN group.values[1] ELSE DefaultValue
         IN  DefaultsOfGroups(Tail(groups), SpreadWith(variants, group.name, first))

computeDefaultVariants(componentSpec) ==
    LET variants == DefaultsOfGroups(componentSpec.variantGroups, EmptyCombination)
        firstState == IF Len(componentSpec.states) > 0
                      THEN componentSpec.states[1].appliesTo ELSE NoSelector
    IN  IF firstState.present THEN firstState.map @@ variants ELSE variants

\* ensureSelectionBounds
ensureSelectionBounds(index, componentSpec) ==
    IF index >= Len(componentSpec.states)
    THEN IF Len(componentSpec.states) > 0 THEN Len(componentSpec.states) - 1 ELSE 0
    ELSE index

\* stateKey: the selector entries, or the name of a state without selector
stateKey(stateSpec) ==
    IF stateSpec.appliesTo.present
    THEN [selector |-> TRUE, entries |-> stateSpec.appliesTo.map, name |-> << >>]
    ELSE [selector |-> FALSE, entries |-> << >>, name |-> stateSpec.name]

\* states.findIndex(...), -1 replaced by 0
FindStateIndex(states, key) ==
    IF \E i \in 1..Len(states) : stateKey(states[i]) = key
    THEN (CHOOSE i \in 1..Len(states) :
            /\ stateKey(states[i]) = key
            /\ \A j \in 1..(i - 1) : stateKey(states[j]) # key) - 1
    ELSE 0

\* slip: the confirmation survives the edit
ConfirmationKept(flag) == flag

\* setSpec and updateSpec: state.largeVariantConfirmed = false
ConfirmationAfterEdit(flag) == FALSE

\* s.splice(index, 1), index counted from 0
SpliceOne(s, index) == SubSeq(s, 1, index) \o SubSeq(s, index + 2, Len(s))

\* the mutators the handlers hand to updateSpec, each named by its handler,
\* and what they write to the draft
Mutate(draft, mutator) ==
    CASE mutator.action = "component-name" ->
            [draft EXCEPT !.name = mutator.value]
      [] mutator.action = "add-variant-group" ->
            [draft EXCEPT !.variantGroups =
                Append(@, [ name |-> << "v", "a", "r", "i", "a", "n", "t" >>,
                            values |-> << DefaultValue >> ])]
      [] mutator.action = "remove-variant-group" ->
            [draft EXCEPT !.variantGroups = SpliceOne(@, mutator.index)]
      [] mutator.action = "add-variant-value" ->
            [draft EXCEPT !.variantGroups[mutator.index + 1].values =
                             Append(@, << "v", "a", "l", "u", "e" >>)]
      [] mutator.action = "remove-variant-value" ->
            [draft EXCEPT !.variantGroups[mutator.groupIndex + 1].values =
                             SpliceOne(@, mutator.valueIndex)]

\* updateSpec: the clone of state.spec, mutated, becomes state.spec
updateSpec(store, ref, mutator) ==
    LET clone == deepCloneSpec(store, ref)
    IN  [ heap |-> [clone.heap EXCEPT ![clone.ref] = Mutate(@, mutator)], ref |-> clone.ref ]

\* what setSpec(the object at ref) does to the state of the editor
SetSpec(store, ref) ==
    LET clone == deepCloneSpec(store, ref)
    IN  /\ objects' = clone.heap
        /\ held' = clone.ref
        /\ spec' = clone.heap[clone.ref]
        /\ stateIndex' = 0
        /\ activeVariants' = computeDefaultVariants(clone.heap[clone.ref])
        /\ stateValidation' = validateSpec(clone.heap[clone.ref])
        /\ largeVariantConfirmed' = ConfirmationAfterEdit(largeVariantConfirmed)

\* what updateSpec(mutator) does to the state of the editor
UpdateSpec(mutator) ==
    LET r == updateSpec(objects, held, mutator)
    IN  /\ objects' = r.heap
        /\ held' = r.ref
        /\ spec' = r.heap[r.ref]
        /\ stateValidation' = validateSpec(r.heap[r.ref])
        /\ largeVariantConfirmed' = ConfirmationAfterEdit(largeVariantConfirmed)
        /\ stateIndex' = ensureSelectionBounds(stateIndex, r.heap[r.ref])
        /\ UNCHANGED activeVariants

ValidationMessage(result) == [type |-> "validation-result", result |-> result]

UserEvent == edits < MaxEdits /\ edits' = edits + 1

\* what the handlers of the editor never touch
EditorFrame ==
    UNCHANGED << pc, validation, combinations, again, combination, selector, matched, fixes, fixed,
                 sameObject, revalidation, element, isRoot, activeStates, computed,
                 recomputed, previewTargets, previewProps, builderVars, msg, stored, page,
                 loads, handled >>

(* Handlers of user events *)

\* templateSelect change
SelectTemplate ==
    /\ UserEvent
    /\ \E id \in TemplateIds :
         LET made == createSpecFromTemplate(objects, id)
         IN  SetSpec(made.heap, made.ref)
    /\ outbox' = Append(outbox, ValidationMessage(stateValidation'))
    /\ EditorFrame /\ UNCHANGED << prompted, delivered, posted, history >>

\* the specifications typed into the import dialog: one of 64 combinations,
\* and one whose first state selects a value its group does not have
ImportSamples ==
    { Templated("button",
        [ForgeSpec(Elem(<< "c" >>, NoRole, "FRAME", << >>), Null,
                   GroupsOf(<< << "a" >>, << "b" >>, << "c" >> >>,
                            << NumberedValues(4), NumberedValues(4), NumberedValues(4) >>),
                   << >>, EmptyProps, << >>) EXCEPT !.name = << "L" >>]),
      Templated("toggle",
        [ForgeSpec(Elem(<< "c" >>, NoRole, "FRAME", << >>), Null,
                   GroupsOf(<< SizeGroup >>, << << << "s", "m" >> >> >>),
                   << StateFor(<< "x" >>, SomeSelector(SizeGroup :> << "l", "g" >>),
                               EmptyStyle) >>,
                   EmptyProps, << >>) EXCEPT !.name = << "S" >>]) }

\* confirmImport click, the JSON parsed
ConfirmImport ==
    /\ UserEvent
    /\ \E parsed \in ImportSamples : SetSpec(Append(objects, parsed), Len(objects) + 1)
    /\ outbox' = Append(outbox, ValidationMessage(stateValidation'))
    /\ EditorFrame /\ UNCHANGED << prompted, delivered, posted, history >>

NameInputs == { << "N" >>, << >> }

\* componentName input
SetName ==
    /\ UserEvent
    /\ \E value \in NameInputs :
         /\ UpdateSpec([action |-> "component-name", value |-> value])
         /\ history' = Append(history, [sent |-> FALSE, name |-> value])
    /\ EditorFrame /\ UNCHANGED << prompted, outbox, delivered, posted >>

\* add-variant-group click
AddVariantGroup ==
    /\ UserEvent
    /\ UpdateSpec([action |-> "add-variant-group"])
    /\ EditorFrame /\ UNCHANGED << prompted, outbox, delivered, posted, history >>

\* remove-variant-group click
RemoveVariantGroup ==
    /\ UserEvent
    /\ \E index \in 0..(Len(spec.variantGroups) - 1) :
         UpdateSpec([action |-> "remove-variant-group", index |-> index])
    /\ EditorFrame /\ UNCHANGED << prompted, outbox, delivered, posted, history >>

\* add-variant-value click
AddVariantValue ==
    /\ UserEvent
    /\ \E index \in 0..(Len(spec.variantGroups) - 1) :
         UpdateSpec([action |-> "add-variant-value", index |-> index])
    /\ EditorFrame /\ UNCHANGED << prompted, outbox, delivered, posted, history >>

\* remove-variant-value click
RemoveVariantValue ==
    /\ UserEvent
    /\ \E groupIndex \in 0..(Len(spec.variantGroups) - 1) :
         \E valueIndex \in 0..(Len(spec.variantGroups[groupIndex + 1].values) - 1) :
            UpdateSpec([action |-> "remove-variant-value", groupIndex |-> groupIndex,
                        valueIndex |-> valueIndex])
    /\ EditorFrame /\ UNCHANGED << prompted, outbox, delivered, posted, history >>

\* the selector entries written into state.activeVariants one by one
AssignEntries(variants, map) == map @@ variants

\* stateSelect change: the option chosen is one of the rendered ones
StateSelect ==
    /\ UserEvent
    /\ \E option \in 1..Len(spec.states) :
         LET index == FindStateIndex(spec.states, stateKey(spec.states[option]))
             appliesTo == spec.states[index + 1].appliesTo
         IN  /\ stateIndex' = index
             /\ activeVariants' = IF appliesTo.present
                                  THEN AssignEntries(activeVariants, appliesTo.map)
                                  ELSE activeVariants
    /\ EditorFrame
    /\ UNCHANGED << spec, stateValidation, objects, held, largeVariantConfirmed, prompted,
                    outbox, delivered, posted, history >>

\* variantToggleContainer change: a select rendered for a group, with one of
\* its options chosen
VariantToggle ==
    /\ UserEvent
    /\ \E g \in 1..Len(spec.variantGroups) :
         \E v \in 1..Len(spec.variantGroups[g].values) :
            activeVariants' = SpreadWith(activeVariants, spec.variantGroups[g].name,
                                         spec.variantGroups[g].values[v])
    /\ EditorFrame
    /\ UNCHANGED << spec, stateValidation, objects, held, stateIndex, largeVariantConfirmed,
                    prompted, outbox, delivered, posted, history >>

\* saveButton click
ClickSave ==
    /\ UserEvent
    /\ outbox' = Append(outbox, [type |-> "request-save", spec |-> spec])
    /\ history' = Append(history, [sent |-> TRUE, spec |-> spec])
    /\ EditorFrame
    /\ UNCHANGED << spec, stateValidation, activeVariants, objects, held, stateIndex,
                    largeVariantConfirmed, prompted, delivered, posted >>

\* createButton click; answer is what the user tells window.confirm
ClickCreate ==
    /\ UserEvent
    /\ \E answer \in BOOLEAN :
         LET result == validateSpec(spec)
             hasLarge == HasCode(result.warnings, "variant.count.large")
             asks == hasLarge /\ ~largeVariantConfirmed
             confirmed == IF asks THEN answer ELSE largeVariantConfirmed
         IN  /\ stateValidation' = result
             /\ largeVariantConfirmed' = confirmed
             /\ prompted' = IF asks THEN [asked |-> TRUE, spec |-> spec, answer |-> answer]
                            ELSE prompted
             /\ outbox' = IF hasLarge /\ ~confirmed THEN outbox
                          ELSE Append(outbox,
                                 [ type |-> "request-create", spec |-> spec,
                                   options |-> [confirmLargeVariantCount |-> confirmed] ])
    /\ EditorFrame
    /\ UNCHANGED << spec, activeVariants, objects, held, stateIndex, delivered, posted, history >>

(* Messages of the plugin *)

\* handlePluginMessage for the oldest message not yet handled
HandlePluginMessage ==
    /\ delivered < Len(posted)
    /\ delivered' = delivered + 1
    /\ LET message == posted[delivered + 1]
       IN  IF message.type = "spec-loaded"
           THEN IF message.spec.present
                THEN SetSpec(Append(objects, message.spec.value), Len(objects) + 1)
                ELSE LET made == createSpecFromTemplate(objects, "button")
                     IN  SetSpec(made.heap, made.ref)
           ELSE IF message.type = "save-success"
           THEN SetSpec(Append(objects, message.spec), Len(objects) + 1)
           ELSE IF message.type = "validation-result"
           THEN /\ stateValidation' = message.result
                /\ UNCHANGED << spec, activeVariants, objects, held, stateIndex,
                                largeVariantConfirmed >>
           ELSE UNCHANGED << spec, stateValidation, activeVariants, objects, held, stateIndex,
                             largeVariantConfirmed >>
    /\ EditorFrame /\ UNCHANGED << prompted, outbox, edits, posted, history >>

\* what figma.clientStorage held when the plugin was started
StoredSamples == { Null } \cup { Some(parsed) : parsed \in ImportSamples }

\* the state after init(): the clone of the module's state object, the
\* clone init() makes and the clone setSpec makes of it; ui-ready follows
EditorStore ==
    LET templates == << ButtonTemplate, ToggleTemplate >>
        first == createSpecFromTemplate(templates, "button")
        second == createSpecFromTemplate(first.heap, "button")
    IN  deepCloneSpec(second.heap, second.ref)

InitEditorState ==
    /\ objects = EditorStore.heap /\ held = EditorStore.ref
    /\ spec = objects[held]
    /\ stateIndex = 0
    /\ activeVariants = computeDefaultVariants(spec)
    /\ stateValidation = validateSpec(spec)
    /\ validation = NoValidation
    /\ largeVariantConfirmed = FALSE /\ prompted = NoPrompt
    /\ outbox = << [type |-> "ui-ready"] >>
    /\ delivered = 0 /\ edits = 0 /\ history = << >>
    /\ IdleGenerator /\ IdleMatcher /\ IdleFixer
    /\ element = NoElement /\ isRoot = FALSE /\ activeStates = << >>
    /\ computed = << >> /\ recomputed = << >>
    /\ previewTargets = << >> /\ previewProps = NoPropValues
    /\ IdleBuilder
    /\ msg = NoMessage /\ page = << >> /\ loads = << >> /\ handled = 0

\* the editor with the spec-loaded of the plugin's start on its way
InitEditor ==
    /\ InitEditorState
    /\ \E loaded \in StoredSamples :
         /\ stored = IF loaded.present THEN [defined |-> TRUE, spec |-> loaded.value]
                     ELSE NoStored
         /\ posted = << [type |-> "spec-loaded", spec |-> loaded] >>
    /\ pc = "idle"

NextEditor ==
    \/ SelectTemplate
    \/ ConfirmImport
    \/ SetName
    \/ AddVariantGroup
    \/ RemoveVariantGroup
    \/ AddVariantValue
    \/ RemoveVariantValue
    \/ StateSelect
    \/ VariantToggle
    \/ ClickSave
    \/ ClickCreate
    \/ HandlePluginMessage

SpecEditor == InitEditor /\ [][NextEditor]_vars

(* Properties of the editing surface *)

\* the objects of the store that existed before the step
Untouched == \A r \in 1..Len(objects) : objects'[r] = objects[r]

\* the object state.spec refers to after the step was made by the step
HeldIsNew == held' > Len(objects) /\ held' <= Len(objects')

\* the values setSpec is given in this model
SetSpecSources == { ButtonTemplate, ToggleTemplate } \cup ImportSamples

\* C25: setSpec, updateSpec and createSpecFromTemplate work on a copy: a
\* step never changes an object that existed before it, whenever state.spec
\* changes it refers to an object made by the step, which equals its source
\* in value (the template, the imported or loaded value, or the previous
\* value apart from the field the edit wrote), and the template definitions
\* keep their value for ever.
C25_EditsWorkOnCopies ==
    /\ [][ /\ Untouched
           /\ (held' # held \/ spec' # spec) =>
                /\ HeldIsNew
                /\ spec' = objects'[held']
                /\ \/ spec' \in SetSpecSources
                   \/ [spec' EXCEPT !.name = spec.name,
                                    !.variantGroups = spec.variantGroups] = spec ]_vars
    /\ [](/\ objects[TemplateRef("button")] = ButtonTemplate
          /\ objects[TemplateRef("toggle")] = ToggleTemplate
          /\ spec = objects[held])

\* two edits of a template's copy were made; the template and the value held
\* before the last edit are still in the store
C25_Witness ==
    /\ edits = MaxEdits
    /\ spec.name = << "N" >>
    /\ Len(spec.variantGroups) = Len(ButtonTemplate.variantGroups) + 1
    /\ \E r \in 1..Len(objects) :
         /\ r # held
         /\ objects[r].name = << "N" >>
         /\ objects[r].variantGroups = ButtonTemplate.variantGroups
    /\ objects[TemplateRef("button")] = ButtonTemplate

NamesOfGroups(groups) == { groups[i].name : i \in 1..Len(groups) }
ValuesOf(group) == { group.values[i] : i \in 1..Len(group.values) }

\* C29: state.activeVariants always maps exactly the names of the current
\* variant groups, each to one of the current values of its group.
C29_ActiveVariantsValid ==
    /\ DOMAIN activeVariants = NamesOfGroups(spec.variantGroups)
    /\ \A i \in 1..Len(spec.variantGroups) :
         LET group == spec.variantGroups[i]
         IN  group.name \in DOMAIN activeVariants =>
                activeVariants[group.name] \in ValuesOf(group)

\* the request-create messages of the outbox
IsConfirmedCreate(message) ==
    message.type = "request-create" /\ message.options.confirmLargeVariantCount

\* C30: the stored confirmation is true only when the prompt was shown for
\* the specification held now and accepted; every step that replaces the
\* specification leaves the stored confirmation false; and a request-create
\* with confirmLargeVariantCount = true is posted only with the very
\* specification the accepted prompt was shown for.
C30_ConfirmationOfThisSpec ==
    /\ [](largeVariantConfirmed =>
            prompted.asked /\ prompted.answer /\ prompted.spec = spec)
    /\ [][(held' # held \/ spec' # spec) => ~largeVariantConfirmed']_vars
    /\ [][(Len(outbox') > Len(outbox) /\ IsConfirmedCreate(outbox'[Len(outbox')])) =>
            /\ prompted'.asked /\ prompted'.answer
            /\ prompted'.spec = outbox'[Len(outbox')].spec
            /\ spec = outbox'[Len(outbox')].spec
            /\ HasCode(validateSpec(spec).warnings, "variant.count.large")]_vars

\* an accepted prompt, a request sent with the confirmation, and then an
\* edit that has reset the stored confirmation
C30_Witness ==
    /\ \E i \in 1..Len(outbox) : IsConfirmedCreate(outbox[i])
    /\ prompted.asked /\ prompted.answer
    /\ prompted.spec # spec
    /\ ~largeVariantConfirmed

(* The editing surface and the plugin, each answering the other's messages *)

\* loadSpecFromStorage: null when nothing is stored
loadSpecFromStorage(storage) == IF storage.defined THEN Some(storage.spec) ELSE Null

\* figma.ui.onmessage is called with the oldest message of the editing
\* surface not yet taken, the handler of the message before it having ended
TakeFromOutbox ==
    /\ pc \in { "rejected", "failed", "done" } /\ handled < Len(outbox)
    /\ msg' = outbox[handled + 1]
    /\ handled' = handled + 1
    /\ pc' = IF msg'.type \in { "ui-ready", "request-load" } THEN "loading"
             ELSE IF msg'.type \in { "request-save", "request-create" } THEN "ready"
             ELSE "done"
    /\ validation' = NoValidation
    /\ UNCHANGED << spec, combinations, again, combination, selector, matched, fixes, fixed,
                    sameObject, revalidation, editorVars, previewVars, builderVars, posted,
                    stored, page, loads >>

\* the read of the storage is done: at the start of the plugin, and for
\* ui-ready and request-load
LoadStored ==
    /\ pc = "loading"
    /\ posted' = Append(posted, [type |-> "spec-loaded", spec |-> loadSpecFromStorage(stored)])
    /\ pc' = "done"
    /\ UNCHANGED << spec, utilVars, editorVars, previewVars, builderVars, msg, stored, page,
                    loads, handled >>

\* init() has run in the editing surface and the plugin has started to read
\* the storage
InitRoundTrip ==
    /\ InitEditorState
    /\ \E loaded \in StoredSamples :
         stored = IF loaded.present THEN [defined |-> TRUE, spec |-> loaded.value]
                  ELSE NoStored
    /\ posted = << >>
    /\ pc = "loading"

NextRoundTrip ==
    \/ SetName
    \/ ClickSave
    \/ HandlePluginMessage
    \/ TakeFromOutbox
    \/ LoadStored
    \/ RequestSave
    \/ SaveStored
    \/ StoreFails

SpecRoundTrip == InitRoundTrip /\ [][NextRoundTrip]_vars

\* the message handled by a step of handlePluginMessage
Arriving == posted[delivered + 1]

\* the place in the history of the request a message answers: of save-success,
\* the last save request that carried the specification of the message (the
\* request answered is that one or an older one); of a spec-loaded that is not
\* the one of the plugin's start, ui-ready, sent before anything was typed
RequestPlace(message) ==
    IF message.type = "save-success"
    THEN LET places == { i \in 1..Len(history) :
                            history[i].sent /\ history[i].spec = message.spec }
         IN  IF places = { } THEN Len(history)
             ELSE CHOOSE i \in places : \A j \in places : j <= i
    ELSE IF message.type = "spec-loaded" /\ delivered > 0 THEN 0
    ELSE Len(history)

\* the places of the names typed after the request was sent
TypedSince(message) ==
    { i \in (RequestPlace(message) + 1)..Len(history) : ~history[i].sent }

\* C28: when save-success or spec-loaded is handled after the user typed a
\* name later than the request it answers, the specification of the editing
\* surface still has the name typed last.
C28_LaterEditsKept ==
    [][(delivered' = delivered + 1 /\ TypedSince(Arriving) # { }) =>
          LET last == CHOOSE i \in TypedSince(Arriving) :
                         \A j \in TypedSince(Arriving) : j <= i
          IN  spec'.name = history[last].name]_vars

====
